---- MODULE Spec2Model ----
(***************************************************************************)
(* Verification model of the bench-management repository:                  *)
(*   - agents/training_agent/agent.py   (TrainingAgent, the recommendation *)
(*     scorer) and utils/training_interface.py (its client),               *)
(*   - mcp_servers/*.py                 (the JSON-RPC-over-stdio servers), *)
(*   - simple_backend.py and database/professional_connection.py           *)
(*     (the request handlers and the database operations they call).       *)
(*                                                                         *)
(* Representation of Python values                                         *)
(*   str      a sequence of one-character strings, so that lower(),        *)
(*            strip() and the substring test `a in b` are computed         *)
(*   None     the record PyNone; a str value is wrapped as PyStr(s) where  *)
(*            the code can be handed either                                *)
(*   float    money is kept in cents, ratings in tenths, recommendation    *)
(*            scores in hundredths of a point before round(score, 1) and   *)
(*            in tenths after it                                           *)
(***************************************************************************)
EXTENDS Integers, Sequences, FiniteSets, TLC

VARIABLES
    training_catalog,   \* TrainingAgent.training_catalog, flattened in dict order
    agent_call,         \* the last public TrainingAgent / client call and what it returned
    remembered,         \* an earlier generate_training_recommendations call (input, result)
    stdin,              \* MCP server: input lines not yet read
    stdout,             \* MCP server: response lines printed so far
    served,             \* MCP server: for each line read, what main() did with it
    server_kind,        \* MCP server: which of the two servers is running
    users,              \* table users
    profiles,           \* table consultant_profiles
    consultant_skills_table,  \* table consultant_skills
    resume_analyses,    \* table resume_analyses
    opportunities,      \* table project_opportunities
    assignments,        \* table consultant_assignments
    next_assignment_id, \* the autoincrement of consultant_assignments.id
    attendance_chatbot, \* simple_backend.attendance_chatbot, set when the module is loaded
    applications,       \* table opportunity_applications
    next_profile_id,    \* autoincrement of consultant_profiles.id
    next_uuid,          \* source of uuid4 values
    requests,           \* in-flight HTTP requests: handler, arguments, position, locals
    running,            \* the request whose coroutine the event loop is executing
    responses           \* completed requests with their HTTP status and body

vars == << training_catalog, agent_call, remembered,
           stdin, stdout, served, server_kind,
           users, profiles, consultant_skills_table, resume_analyses,
           opportunities,
           applications, next_profile_id, next_uuid,
           assignments, next_assignment_id, attendance_chatbot,
           requests, running, responses >>

train_vars == << training_catalog, agent_call, remembered >>
mcp_vars   == << stdin, stdout, served, server_kind >>
db_vars    == << users, profiles, consultant_skills_table, resume_analyses,
           opportunities,
                 applications, next_profile_id, next_uuid,
                 assignments, next_assignment_id, attendance_chatbot,
                 requests, running, responses >>

----------------------------------------------------------------------------
(* Python values and str methods *)

PyNone == [t |-> "none", v |-> << >>]

PyStr(s) == [t |-> "str", v |-> s]

PyList(xs) == [t |-> "list", v |-> xs]

PyInt(n) == [t |-> "int", v |-> n]

Absent == [t |-> "absent", v |-> << >>]

UpperChars ==
    << "A", "B", "C", "D", "E", "F", "G", "H", "I", "J", "K", "L", "M",
       "N", "O", "P", "Q", "R", "S", "T", "U", "V", "W", "X", "Y", "Z" >>

LowerChars ==
    << "a", "b", "c", "d", "e", "f", "g", "h", "i", "j", "k", "l", "m",
       "n", "o", "p", "q", "r", "s", "t", "u", "v", "w", "x", "y", "z" >>

LowerChar(c) ==
    IF \E i \in 1..Len(UpperChars) : UpperChars[i] = c
    THEN LowerChars[CHOOSE i \in 1..Len(UpperChars) : UpperChars[i] = c]
    ELSE c

\* str.lower()
lower(s) == [i \in 1..Len(s) |-> LowerChar(s[i])]

RECURSIVE lstrip(_)
lstrip(s) == IF s # << >> /\ Head(s) = " " THEN lstrip(Tail(s)) ELSE s

RECURSIVE rstrip(_)
rstrip(s) ==
    IF s # << >> /\ s[Len(s)] = " " THEN rstrip(SubSeq(s, 1, Len(s) - 1)) ELSE s

\* str.strip()
strip(s) == rstrip(lstrip(s))

\* the str operator `a in b`
str_in(a, b) ==
    \E i \in 0..(Len(b) - Len(a)) : SubSeq(b, i + 1, i + Len(a)) = a

\* the list operator `x in xs`
list_in(x, xs) == \E i \in 1..Len(xs) : xs[i] = x

\* a local variable: the value bound once to the name of Body's parameter
with(value, Body(_)) == Body(value)

\* dict.get(key, default) on a record whose missing keys hold Absent
dict_get(value, default) == IF value.t = "absent" THEN default ELSE value

RECURSIVE sum_seq(_)
sum_seq(xs) == IF xs = << >> THEN 0 ELSE Head(xs) + sum_seq(Tail(xs))

\* xs[:n]
take(xs, n) == SubSeq(xs, 1, IF Len(xs) < n THEN Len(xs) ELSE n)

map_seq(F(_), xs) == [i \in 1..Len(xs) |-> F(xs[i])]

\* list.sort(key=..., reverse=...): stable; with reverse=True elements of
\* equal key keep their original order as well
RECURSIVE insert_sorted(_, _, _, _)
insert_sorted(Key(_), reverse, x, sorted) ==
    IF sorted = << >> THEN << x >>
    ELSE IF (IF reverse THEN Key(x) > Key(Head(sorted))
                        ELSE Key(x) < Key(Head(sorted)))
         THEN << x >> \o sorted
         ELSE << Head(sorted) >> \o insert_sorted(Key, reverse, x, Tail(sorted))

RECURSIVE sort_by(_, _, _)
sort_by(Key(_), reverse, xs) ==
    IF xs = << >> THEN << >>
    ELSE insert_sorted(Key, reverse, xs[Len(xs)],
                       sort_by(Key, reverse, SubSeq(xs, 1, Len(xs) - 1)))

\* round(x, 1) for x given in hundredths; the result is in tenths.  Python
\* rounds the binary float, which for the values met here (exact tenths up
\* to float error) is the nearest tenth; a tie goes to the even tenth.
round1(hundredths) ==
    LET q == hundredths \div 10
        r == hundredths % 10
    IN  IF r < 5 THEN q
        ELSE IF r > 5 THEN q + 1
        ELSE IF q % 2 = 0 THEN q ELSE q + 1

----------------------------------------------------------------------------
(* TrainingAgent *)

\* _initialize_training_catalog: the programs in dict order, each with its
\* category (cost in cents, rating in tenths)
InitialTrainingCatalog ==
    <<
      [ category |-> <<"c", "l", "o", "u", "d", "_", "c", "o", "m", "p", "u", "t", "i", "n", "g">>,
        id |-> "aws_solutions_architect", duration_hours |-> 60,
        difficulty |-> <<"I", "n", "t", "e", "r", "m", "e", "d", "i", "a", "t", "e">>, cost |-> 15000, certification |-> TRUE,
        skills |-> << <<"A", "W", "S">>,
                    <<"C", "l", "o", "u", "d", " ", "A", "r", "c", "h", "i", "t", "e", "c", "t", "u", "r", "e">>,
                    <<"E", "C", "2">>,
                    <<"S", "3">>,
                    <<"V", "P", "C">>,
                    <<"I", "A", "M">> >>,
        market_demand |-> 95, career_impact |-> <<"H", "i", "g", "h">>, rating |-> 48 ],
      [ category |-> <<"c", "l", "o", "u", "d", "_", "c", "o", "m", "p", "u", "t", "i", "n", "g">>,
        id |-> "azure_fundamentals", duration_hours |-> 40,
        difficulty |-> <<"B", "e", "g", "i", "n", "n", "e", "r">>, cost |-> 9900, certification |-> TRUE,
        skills |-> << <<"A", "z", "u", "r", "e">>,
                    <<"C", "l", "o", "u", "d", " ", "C", "o", "n", "c", "e", "p", "t", "s">>,
                    <<"A", "z", "u", "r", "e", " ", "S", "e", "r", "v", "i", "c", "e", "s">>,
                    <<"S", "e", "c", "u", "r", "i", "t", "y">> >>,
        market_demand |-> 90, career_impact |-> <<"H", "i", "g", "h">>, rating |-> 47 ],
      [ category |-> <<"c", "l", "o", "u", "d", "_", "c", "o", "m", "p", "u", "t", "i", "n", "g">>,
        id |-> "kubernetes_fundamentals", duration_hours |-> 50,
        difficulty |-> <<"I", "n", "t", "e", "r", "m", "e", "d", "i", "a", "t", "e">>, cost |-> 19900, certification |-> TRUE,
        skills |-> << <<"K", "u", "b", "e", "r", "n", "e", "t", "e", "s">>,
                    <<"C", "o", "n", "t", "a", "i", "n", "e", "r", " ", "O", "r", "c", "h", "e", "s", "t", "r", "a", "t", "i", "o", "n">>,
                    <<"D", "o", "c", "k", "e", "r">>,
                    <<"D", "e", "v", "O", "p", "s">> >>,
        market_demand |-> 88, career_impact |-> <<"H", "i", "g", "h">>, rating |-> 46 ],
      [ category |-> <<"p", "r", "o", "g", "r", "a", "m", "m", "i", "n", "g">>,
        id |-> "nodejs_complete", duration_hours |-> 35,
        difficulty |-> <<"I", "n", "t", "e", "r", "m", "e", "d", "i", "a", "t", "e">>, cost |-> 8999, certification |-> FALSE,
        skills |-> << <<"N", "o", "d", "e", ".", "j", "s">>,
                    <<"E", "x", "p", "r", "e", "s", "s", ".", "j", "s">>,
                    <<"M", "o", "n", "g", "o", "D", "B">>,
                    <<"R", "E", "S", "T", "f", "u", "l", " ", "A", "P", "I", "s">> >>,
        market_demand |-> 85, career_impact |-> <<"H", "i", "g", "h">>, rating |-> 47 ],
      [ category |-> <<"p", "r", "o", "g", "r", "a", "m", "m", "i", "n", "g">>,
        id |-> "react_complete", duration_hours |-> 40,
        difficulty |-> <<"I", "n", "t", "e", "r", "m", "e", "d", "i", "a", "t", "e">>, cost |-> 9499, certification |-> FALSE,
        skills |-> << <<"R", "e", "a", "c", "t">>,
                    <<"R", "e", "d", "u", "x">>,
                    <<"R", "e", "a", "c", "t", " ", "H", "o", "o", "k", "s">>,
                    <<"C", "o", "n", "t", "e", "x", "t", " ", "A", "P", "I">> >>,
        market_demand |-> 92, career_impact |-> <<"H", "i", "g", "h">>, rating |-> 48 ],
      [ category |-> <<"p", "r", "o", "g", "r", "a", "m", "m", "i", "n", "g">>,
        id |-> "python_data_science", duration_hours |-> 60,
        difficulty |-> <<"I", "n", "t", "e", "r", "m", "e", "d", "i", "a", "t", "e">>, cost |-> 4900, certification |-> TRUE,
        skills |-> << <<"P", "y", "t", "h", "o", "n">>,
                    <<"P", "a", "n", "d", "a", "s">>,
                    <<"N", "u", "m", "P", "y">>,
                    <<"M", "a", "t", "p", "l", "o", "t", "l", "i", "b">>,
                    <<"S", "c", "i", "k", "i", "t", "-", "l", "e", "a", "r", "n">> >>,
        market_demand |-> 89, career_impact |-> <<"H", "i", "g", "h">>, rating |-> 46 ],
      [ category |-> <<"d", "a", "t", "a", "b", "a", "s", "e">>,
        id |-> "postgresql_mastery", duration_hours |-> 45,
        difficulty |-> <<"I", "n", "t", "e", "r", "m", "e", "d", "i", "a", "t", "e">>, cost |-> 0, certification |-> FALSE,
        skills |-> << <<"P", "o", "s", "t", "g", "r", "e", "S", "Q", "L">>,
                    <<"D", "a", "t", "a", "b", "a", "s", "e", " ", "D", "e", "s", "i", "g", "n">>,
                    <<"S", "Q", "L", " ", "O", "p", "t", "i", "m", "i", "z", "a", "t", "i", "o", "n">>,
                    <<"B", "a", "c", "k", "u", "p", " ", "&", " ", "R", "e", "c", "o", "v", "e", "r", "y">> >>,
        market_demand |-> 78, career_impact |-> <<"M", "e", "d", "i", "u", "m">>, rating |-> 45 ],
      [ category |-> <<"d", "a", "t", "a", "b", "a", "s", "e">>,
        id |-> "mongodb_developer", duration_hours |-> 30,
        difficulty |-> <<"I", "n", "t", "e", "r", "m", "e", "d", "i", "a", "t", "e">>, cost |-> 15000, certification |-> TRUE,
        skills |-> << <<"M", "o", "n", "g", "o", "D", "B">>,
                    <<"N", "o", "S", "Q", "L">>,
                    <<"A", "g", "g", "r", "e", "g", "a", "t", "i", "o", "n", " ", "P", "i", "p", "e", "l", "i", "n", "e">>,
                    <<"I", "n", "d", "e", "x", "i", "n", "g">> >>,
        market_demand |-> 82, career_impact |-> <<"M", "e", "d", "i", "u", "m">>, rating |-> 44 ],
      [ category |-> <<"a", "i", "_", "m", "l">>,
        id |-> "machine_learning_basics", duration_hours |-> 55,
        difficulty |-> <<"I", "n", "t", "e", "r", "m", "e", "d", "i", "a", "t", "e">>, cost |-> 0, certification |-> TRUE,
        skills |-> << <<"M", "a", "c", "h", "i", "n", "e", " ", "L", "e", "a", "r", "n", "i", "n", "g">>,
                    <<"P", "y", "t", "h", "o", "n">>,
                    <<"T", "e", "n", "s", "o", "r", "F", "l", "o", "w">>,
                    <<"D", "a", "t", "a", " ", "A", "n", "a", "l", "y", "s", "i", "s">> >>,
        market_demand |-> 94, career_impact |-> <<"H", "i", "g", "h">>, rating |-> 49 ],
      [ category |-> <<"a", "i", "_", "m", "l">>,
        id |-> "ai_for_everyone", duration_hours |-> 25,
        difficulty |-> <<"B", "e", "g", "i", "n", "n", "e", "r">>, cost |-> 4900, certification |-> TRUE,
        skills |-> << <<"A", "I", " ", "C", "o", "n", "c", "e", "p", "t", "s">>,
                    <<"M", "a", "c", "h", "i", "n", "e", " ", "L", "e", "a", "r", "n", "i", "n", "g", " ", "B", "a", "s", "i", "c", "s">>,
                    <<"A", "I", " ", "S", "t", "r", "a", "t", "e", "g", "y">> >>,
        market_demand |-> 91, career_impact |-> <<"M", "e", "d", "i", "u", "m">>, rating |-> 47 ]
    >>

s_beginner     == << "b", "e", "g", "i", "n", "n", "e", "r" >>
s_intermediate == << "i", "n", "t", "e", "r", "m", "e", "d", "i", "a", "t", "e" >>
s_advanced     == << "a", "d", "v", "a", "n", "c", "e", "d" >>
s_junior       == << "j", "u", "n", "i", "o", "r" >>
s_senior       == << "s", "e", "n", "i", "o", "r" >>
s_high         == << "h", "i", "g", "h" >>
s_medium       == << "m", "e", "d", "i", "u", "m" >>
s_low          == << "l", "o", "w" >>
s_High         == << "H", "i", "g", "h" >>
s_Medium       == << "M", "e", "d", "i", "u", "m" >>

\* the keys of consultant_data that the agent reads; a key that is not in
\* the dict holds Absent
ConsultantData(skills, missing_skills, experience_level, target_skills, experience_years) ==
    [ t |-> "dict", consultant_id |-> PyInt(1), skills |-> skills,
      missing_skills |-> missing_skills, experience_level |-> experience_level,
      target_skills |-> target_skills, experience_years |-> experience_years ]

NoConsultantData ==
    [ t |-> "none", consultant_id |-> Absent, skills |-> Absent,
      missing_skills |-> Absent, experience_level |-> Absent,
      target_skills |-> Absent, experience_years |-> Absent ]

\* the keys of progress_data that the agent reads
ProgressData(progress_percentage) ==
    [ t |-> "dict", progress_percentage |-> progress_percentage,
      total_duration_hours |-> Absent ]

\* outcome of a block of code: a value, or an exception that left the block;
\* inner records that a callee raised and handled an exception of its own
Returned(x) == [raised |-> FALSE, inner |-> FALSE, error |-> "", value |-> x]

Raised(e) == [raised |-> TRUE, inner |-> FALSE, error |-> e, value |-> << >>]

\* the statements after a block: skipped when an exception left the block
and_then(outcome, Rest(_)) == IF outcome.raised THEN outcome ELSE Rest(outcome.value)

\* a plausible slip: a clause that names one exception type
except_clause_catches_value_error_only(error) == error = "ValueError"

\* `except Exception as e`: the clause catches whatever the block raises
\* (AttributeError, TypeError, FileNotFoundError and Exception itself all
\* derive from Exception)
except_clause_catches(error) == TRUE

\* what a call of a public method did: the dict it returned, whether an
\* exception occurred inside it, and whether an exception left it
\* `try: <block> except Exception as e: return <handler(str(e))>`
try_except(outcome, handler(_)) ==
    [ exception  |-> outcome.raised \/ outcome.inner,
      propagated |-> outcome.raised /\ ~ except_clause_catches(outcome.error),
      result     |-> IF outcome.raised THEN handler(outcome.error) ELSE outcome.value ]

\* a plausible slip: the whole catalog offered when nothing matches
find_training_for_skill_or_all(catalog, skill) ==
    LET relevant_training ==
            SelectSeq(catalog,
                      LAMBDA program :
                          \E i \in 1..Len(program.skills) :
                              LET ps == lower(program.skills[i])
                              IN  str_in(skill, ps) \/ str_in(ps, skill))
    IN  IF relevant_training = << >> THEN catalog ELSE relevant_training

\* _find_training_for_skill
find_training_for_skill(catalog, skill) ==
    SelectSeq(catalog,
              LAMBDA program :
                  \E i \in 1..Len(program.skills) :
                      LET ps == lower(program.skills[i])
                      IN  str_in(skill, ps) \/ str_in(ps, skill))

\* difficulty_map.get(key, 2)
difficulty_map_get(key) ==
    IF key = s_beginner THEN 1
    ELSE IF key = s_intermediate THEN 2
    ELSE IF key = s_advanced THEN 3
    ELSE 2

\* exp_level_map.get(key, 2)
exp_level_map_get(key) ==
    IF key = s_junior THEN 1
    ELSE IF key = s_intermediate THEN 2
    ELSE IF key = s_senior THEN 3
    ELSE 2

\* impact_map.get(key, 10)
impact_map_get(key) ==
    IF key = s_high THEN 15
    ELSE IF key = s_medium THEN 10
    ELSE IF key = s_low THEN 5
    ELSE 10

abs(n) == IF n < 0 THEN -n ELSE n

\* the experience-level points of _calculate_recommendation_score
level_points(training, experience_level) ==
    LET training_level   == difficulty_map_get(lower(training.difficulty))
        consultant_level == exp_level_map_get(lower(experience_level))
        level_diff       == abs(training_level - consultant_level)
    IN  IF level_diff = 0 THEN 20
        ELSE IF level_diff = 1 THEN 15
        ELSE 5

\* a plausible slip: the two middle cost tiers tested in the wrong order
cost_points_tiers_swapped(training) ==
    IF training.cost = 0 THEN 15
    ELSE IF training.cost <= 20000 THEN 8
    ELSE IF training.cost <= 10000 THEN 12
    ELSE 3

\* the cost-efficiency points of _calculate_recommendation_score (cost in cents)
cost_points(training) ==
    IF training.cost = 0 THEN 15
    ELSE IF training.cost <= 10000 THEN 12
    ELSE IF training.cost <= 20000 THEN 8
    ELSE 3

\* _calculate_recommendation_score, in tenths of a point.  The running sum
\* is kept in hundredths: (market_demand / 100) * 30 is market_demand * 30
\* hundredths and (rating / 5) * 20 is 40 hundredths per tenth of rating.
calculate_recommendation_score(training, current_skills, experience_level) ==
    round1(training.market_demand * 30
           + training.rating * 40
           + level_points(training, experience_level) * 100
           + impact_map_get(lower(training.career_impact)) * 100
           + cost_points(training) * 100)

\* _get_priority_level (score in tenths)
get_priority_level(score) ==
    IF score >= 800 THEN "High"
    ELSE IF score >= 600 THEN "Medium"
    ELSE "Low"

\* _generate_recommendation_reason: the first three reasons, in order; the
\* reason that names the skill gap carries the missing skill
reason_text(text) == [text |-> text, skill |-> << >>]

generate_recommendation_reason(training, missing_skill) ==
    LET reasons ==
            (IF training.market_demand > 85
             THEN << reason_text("high market demand") >> ELSE << >>)
         \o (IF training.certification
             THEN << reason_text("industry-recognized certification") >> ELSE << >>)
         \o (IF training.cost = 0 THEN << reason_text("free course") >> ELSE << >>)
         \o (IF training.rating >= 45 THEN << reason_text("highly rated") >> ELSE << >>)
         \o (IF list_in(lower(missing_skill), map_seq(lower, training.skills))
             THEN << [text |-> "directly addresses skill gap", skill |-> missing_skill] >>
             ELSE << >>)
    IN  take(IF reasons = << >>
             THEN << reason_text("relevant to your career goals") >>
             ELSE reasons, 3)

\* _calculate_training_roi
calculate_training_roi(training) ==
    IF training.career_impact = s_High /\ training.market_demand > 85 THEN "Very High"
    ELSE IF training.career_impact = s_High \/ training.market_demand > 75 THEN "High"
    ELSE IF training.career_impact = s_Medium \/ training.market_demand > 60 THEN "Medium"
    ELSE "Low"

\* the recommendation dict built in the loop of generate_training_recommendations
\* (title, provider, url, prerequisites and certification_name are copied
\* from the program and are identified here by training_id)
recommendation(training, missing_skill, current_skills, experience_level) ==
    LET score == calculate_recommendation_score(training, current_skills, experience_level)
    IN  [ training_id             |-> training.id,
          duration_hours          |-> training.duration_hours,
          difficulty              |-> training.difficulty,
          cost                    |-> training.cost,
          certification_available |-> training.certification,
          skills_covered          |-> training.skills,
          rating                  |-> training.rating,
          recommendation_score    |-> score,
          priority                |-> get_priority_level(score),
          market_demand           |-> training.market_demand,
          career_impact           |-> training.career_impact,
          reason                  |-> generate_recommendation_reason(training, missing_skill),
          estimated_roi           |-> calculate_training_roi(training) ]

\* the loop `for missing_skill in missing_skills` of
\* generate_training_recommendations: missing_skill.lower() raises on a
\* value that is not a str, experience_level.lower() raises inside the
\* scorer, which runs only when a program was found
RECURSIVE collect_recommendations(_, _, _, _)
collect_recommendations(catalog, missing_skills, current_skills, experience_level) ==
    IF missing_skills = << >> THEN Returned(<< >>)
    ELSE LET missing_skill == Head(missing_skills)
         IN  IF missing_skill.t # "str" THEN Raised("AttributeError")
             ELSE LET found == find_training_for_skill(catalog, lower(missing_skill.v))
                  IN  IF found # << >> /\ experience_level.t # "str"
                      THEN Raised("AttributeError")
                      ELSE LET here == [i \in 1..Len(found) |->
                                           recommendation(found[i], missing_skill.v,
                                                          current_skills, experience_level.v)]
                               rest == collect_recommendations(catalog, Tail(missing_skills),
                                                               current_skills, experience_level)
                           IN  IF rest.raised THEN rest
                               ELSE Returned(here \o rest.value)

\* the (rec, skill) pairs in the order the nested loops of
\* _create_learning_paths visit them
RECURSIVE rec_skill_pairs(_)
rec_skill_pairs(recommendations) ==
    IF recommendations = << >> THEN << >>
    ELSE LET rec == Head(recommendations)
         IN  [i \in 1..Len(rec.skills_covered) |->
                 [rec |-> rec, skill |-> rec.skills_covered[i]]]
             \o rec_skill_pairs(Tail(recommendations))

\* the groups of the pairs in `kept`: a dict in insertion order, kept as a
\* sequence of [skill, trainings]; a key enters at its first pair and every
\* pair appends its rec to the list of its key
groups_of(kept) ==
    LET firsts == SelectSeq([i \in 1..Len(kept) |-> i],
                            LAMBDA i : ~ \E j \in 1..(i - 1) :
                                           kept[j].skill = kept[i].skill)
    IN  [k \in 1..Len(firsts) |->
            LET skill == kept[firsts[k]].skill
                same  == SelectSeq(kept, LAMBDA p : p.skill = skill)
            IN  [skill |-> skill, trainings |-> [i \in 1..Len(same) |-> same[i].rec]]]

\* a plausible slip: the groups built without the test against missing_skills
group_by_skill_unfiltered(pairs, missing_lower) == groups_of(pairs)

\* skill_groups of _create_learning_paths: the pairs whose skill, lowered,
\* is one of the lowered missing skills, grouped by the skill as written
group_by_skill(pairs, missing_lower) ==
    groups_of(SelectSeq(pairs, LAMBDA p : list_in(lower(p.skill), missing_lower)))

\* trainings.sort(key=lambda x: difficulty_map.get(x["difficulty"].lower(), 2))
sort_trainings(trainings) ==
    sort_by(LAMBDA x : difficulty_map_get(lower(x.difficulty)), FALSE, trainings)

\* one learning path of _create_learning_paths, from the sorted trainings
learning_path(skill, trainings) ==
    [ skill_focus          |-> skill,
      total_duration_hours |-> sum_seq([i \in 1..Len(trainings) |->
                                          trainings[i].duration_hours]),
      total_cost           |-> sum_seq([i \in 1..Len(trainings) |-> trainings[i].cost]),
      progression          |-> [i \in 1..Len(trainings) |->
                                  [ step           |-> i,
                                    training_id    |-> trainings[i].training_id,
                                    duration_hours |-> trainings[i].duration_hours,
                                    difficulty     |-> trainings[i].difficulty,
                                    certification  |->
                                        trainings[i].certification_available ]] ]

\* _create_learning_paths (missing_skills: a list of str): a path for each
\* group of more than one training, the first three paths returned
create_learning_paths(recommendations, missing_skills) ==
    with(SelectSeq(group_by_skill(rec_skill_pairs(recommendations),
                                  map_seq(lower, missing_skills)),
                   LAMBDA g : Len(g.trainings) > 1),
         LAMBDA multi :
             take([i \in 1..Len(multi) |->
                      learning_path(multi[i].skill, sort_trainings(multi[i].trainings))],
                  3))

\* the failure dict of the `except Exception` clauses of TrainingAgent
failure(error) == [success |-> FALSE, error |-> error]

\* a plausible slip: the sort without reverse=True
sort_recommendations_ascending(recommendations) ==
    sort_by(LAMBDA x : x.recommendation_score, FALSE, recommendations)

\* recommendations.sort(key=lambda x: x["recommendation_score"], reverse=True)
sort_recommendations(recommendations) ==
    sort_by(LAMBDA x : x.recommendation_score, TRUE, recommendations)

\* the candidate list of generate_training_recommendations after its sort
sorted_recommendations(catalog, consultant_data) ==
    IF consultant_data.t # "dict" THEN Raised("AttributeError")
    ELSE LET missing_skills == dict_get(consultant_data.missing_skills, PyList(<< >>))
         IN  IF missing_skills.t # "list" THEN Raised("TypeError")
             ELSE and_then(
                      collect_recommendations(
                          catalog, missing_skills.v,
                          dict_get(consultant_data.skills, PyList(<< >>)),
                          dict_get(consultant_data.experience_level, PyStr(s_intermediate))),
                      LAMBDA recommendations :
                          Returned(sort_recommendations(recommendations)))

\* the dict returned by generate_training_recommendations (generated_at,
\* the wall clock, is left out)
recommendations_result(recommendations, consultant_data) ==
    LET missing_skills == dict_get(consultant_data.missing_skills, PyList(<< >>)).v
        top5 == take(recommendations, 5)
    IN  [ success         |-> TRUE,
          consultant_id   |-> dict_get(consultant_data.consultant_id, PyNone),
          recommendations |-> take(recommendations, 10),
          learning_paths  |->
              create_learning_paths(recommendations,
                                    [i \in 1..Len(missing_skills) |-> missing_skills[i].v]),
          summary |->
            [ total_recommendations |-> Len(recommendations),
              high_priority         |->
                  Len(SelectSeq(recommendations, LAMBDA r : r.priority = "High")),
              with_certification    |->
                  Len(SelectSeq(recommendations, LAMBDA r : r.certification_available)),
              estimated_total_hours |->
                  sum_seq([i \in 1..Len(top5) |-> top5[i].duration_hours]),
              estimated_total_cost  |->
                  sum_seq([i \in 1..Len(top5) |-> top5[i].cost]) ] ]

\* the try block of generate_training_recommendations
generate_training_recommendations_body(catalog, consultant_data) ==
    and_then(sorted_recommendations(catalog, consultant_data),
             LAMBDA recommendations :
                 Returned(recommendations_result(recommendations, consultant_data)))

\* generate_training_recommendations
generate_training_recommendations(catalog, consultant_data) ==
    try_except(generate_training_recommendations_body(catalog, consultant_data), failure)

\* round(num / den) and round(num / den, 0): the nearest integer, a tie
\* going to the even one
round_ratio(num, den) ==
    LET q == num \div den
        r == num % den
    IN  IF 2 * r < den THEN q
        ELSE IF 2 * r > den THEN q + 1
        ELSE IF q % 2 = 0 THEN q ELSE q + 1

max(a, b) == IF a >= b THEN a ELSE b

\* [skill.lower().strip() for skill in skills]
RECURSIVE lower_strip_all(_)
lower_strip_all(skills) ==
    IF skills.t # "list" THEN Raised("TypeError")
    ELSE IF skills.v = << >> THEN Returned(<< >>)
    ELSE IF Head(skills.v).t # "str" THEN Raised("AttributeError")
    ELSE LET rest == lower_strip_all(PyList(Tail(skills.v)))
         IN  IF rest.raised THEN rest
             ELSE Returned(<< strip(lower(Head(skills.v).v)) >> \o rest.value)

\* the try block of analyze_skill_gaps (analysis_timestamp, the wall clock,
\* is left out; coverage_percentage is in tenths of a percent)
analyze_skill_gaps_body(consultant_skills, target_skills) ==
    LET current_skills_lower == lower_strip_all(consultant_skills)
        target_skills_lower  == lower_strip_all(target_skills)
    IN  IF current_skills_lower.raised THEN current_skills_lower
        ELSE IF target_skills_lower.raised THEN target_skills_lower
        ELSE LET is_current(skill) ==
                     list_in(strip(lower(skill.v)), current_skills_lower.value)
                 missing_skills  == SelectSeq(target_skills.v, LAMBDA s : ~ is_current(s))
                 matching_skills == SelectSeq(target_skills.v, is_current)
             IN  Returned(
                 [ success  |-> TRUE,
                   analysis |->
                     [ total_target_skills |-> Len(target_skills.v),
                       matching_skills     |-> matching_skills,
                       missing_skills      |-> missing_skills,
                       coverage_percentage |->
                           IF target_skills.v # << >>
                           THEN round_ratio(Len(matching_skills) * 1000,
                                            Len(target_skills.v))
                           ELSE 1000,
                       priority_gaps       |-> take(missing_skills, 3) ] ])

\* analyze_skill_gaps
analyze_skill_gaps(consultant_skills, target_skills) ==
    try_except(analyze_skill_gaps_body(consultant_skills, target_skills), failure)

\* _calculate_status
calculate_status(progress_percentage) ==
    IF progress_percentage = 0 THEN "not_started"
    ELSE IF progress_percentage < 25 THEN "getting_started"
    ELSE IF progress_percentage < 50 THEN "progressing_well"
    ELSE IF progress_percentage < 75 THEN "more_than_halfway"
    ELSE IF progress_percentage < 100 THEN "nearly_complete"
    ELSE "completed"

\* _get_next_milestone
get_next_milestone(progress_percentage) ==
    IF progress_percentage < 25 THEN "Complete first quarter of course"
    ELSE IF progress_percentage < 50 THEN "Reach halfway point"
    ELSE IF progress_percentage < 75 THEN "Complete three quarters"
    ELSE IF progress_percentage < 100 THEN "Complete final assessments"
    ELSE "Course completed!"

\* _estimate_completion_date: "Completed", or a date that many whole days
\* after today (5 hours of study a week)
estimate_completion_date(progress_percentage, total_hours) ==
    IF progress_percentage >= 100 THEN [completed |-> TRUE, days_from_now |-> 0]
    ELSE [ completed     |-> FALSE,
           days_from_now |-> ((100 - progress_percentage) * total_hours * 7) \div 500 ]

\* the try block of track_training_progress (updated_at, the wall clock, is
\* left out): progress_data.get raises on a value that is not a dict, the
\* comparisons of _calculate_status raise on a progress that is not a number
track_training_progress_body(enrollment_id, progress_data) ==
    IF progress_data.t # "dict" THEN Raised("AttributeError")
    ELSE LET progress_percentage == dict_get(progress_data.progress_percentage, PyInt(0))
             total_duration      == dict_get(progress_data.total_duration_hours, PyInt(40))
         IN  IF progress_percentage.t # "int" THEN Raised("TypeError")
             ELSE Returned(
                  [ success  |-> TRUE,
                    progress |->
                      [ enrollment_id        |-> enrollment_id,
                        current_progress     |-> progress_percentage.v,
                        status               |-> calculate_status(progress_percentage.v),
                        next_milestone       |-> get_next_milestone(progress_percentage.v),
                        estimated_completion |->
                            estimate_completion_date(progress_percentage.v,
                                                     total_duration.v) ] ])

\* track_training_progress
track_training_progress(enrollment_id, progress_data) ==
    try_except(track_training_progress_body(enrollment_id, progress_data), failure)

\* _assess_current_level
assess_current_level(experience_years, skill_count) ==
    IF experience_years < 2 \/ skill_count < 5 THEN "Beginner"
    ELSE IF experience_years < 5 \/ skill_count < 12 THEN "Intermediate"
    ELSE "Advanced"

\* _create_development_timeline without its dates: a training of h hours
\* ends h/10 hours after it starts, so its duration in whole days is
\* h \div 240
create_development_timeline(trainings) ==
    [i \in 1..Len(trainings) |->
        [ phase          |-> i,
          training_id    |-> trainings[i].training_id,
          duration_weeks |-> round_ratio(trainings[i].duration_hours \div 240, 7),
          skills_gained  |-> trainings[i].skills_covered ]]

\* _create_milestones without its dates
create_milestones(missing_skills) ==
    LET first5 == take(missing_skills, 5)
    IN  [i \in 1..Len(first5) |-> [milestone_id |-> i, skill |-> first5[i]]]

\* _estimate_plan_duration
estimate_plan_duration(trainings) ==
    max(3, round_ratio(sum_seq([i \in 1..Len(trainings) |-> trainings[i].duration_hours]),
                       40))

\* the development_plan dict of generate_skill_development_plan (created_at
\* and the dates are left out); experience_years < 2 raises on None
development_plan(consultant_data, analysis, recs) ==
    LET current_skills   == dict_get(consultant_data.skills, PyList(<< >>))
        target_skills    == dict_get(consultant_data.target_skills, PyList(<< >>))
        experience_years == dict_get(consultant_data.experience_years, PyInt(3))
        top5             == take(recs.recommendations, 5)
    IN  IF experience_years.t # "int" THEN Raised("TypeError")
        ELSE Returned(
             [ success          |-> TRUE,
               development_plan |->
                 [ consultant_id  |-> dict_get(consultant_data.consultant_id, PyNone),
                   current_level  |-> assess_current_level(experience_years.v,
                                                           Len(current_skills.v)),
                   target_level   |-> "Advanced",
                   skill_gap_analysis    |-> analysis,
                   recommended_trainings |-> top5,
                   learning_paths |-> recs.learning_paths,
                   timeline       |-> create_development_timeline(top5),
                   milestones     |-> create_milestones(analysis.missing_skills),
                   success_metrics_target    |-> Len(target_skills.v),
                   estimated_duration_months |-> estimate_plan_duration(top5),
                   total_investment |-> recs.summary.estimated_total_cost ] ])

\* the try block of generate_skill_development_plan; the two calls it
\* makes handle their own exceptions
generate_skill_development_plan_body(catalog, consultant_data) ==
    IF consultant_data.t # "dict" THEN Raised("AttributeError")
    ELSE with(analyze_skill_gaps(dict_get(consultant_data.skills, PyList(<< >>)),
                                 dict_get(consultant_data.target_skills, PyList(<< >>))),
         LAMBDA gap_analysis :
             IF ~ gap_analysis.result.success
             THEN [Returned(gap_analysis.result) EXCEPT !.inner = gap_analysis.exception]
             ELSE with(generate_training_recommendations(
                           catalog,
                           [consultant_data EXCEPT
                               !.missing_skills =
                                   PyList(gap_analysis.result.analysis.missing_skills)]),
                  LAMBDA recommendations :
                      IF ~ recommendations.result.success
                      THEN [Returned(recommendations.result) EXCEPT
                               !.inner = recommendations.exception]
                      ELSE development_plan(consultant_data,
                                            gap_analysis.result.analysis,
                                            recommendations.result)))

\* generate_skill_development_plan
generate_skill_development_plan(catalog, consultant_data) ==
    try_except(generate_skill_development_plan_body(catalog, consultant_data), failure)

IsLetter(c) ==
    \E i \in 1..Len(UpperChars) : UpperChars[i] = c \/ LowerChars[i] = c

UpperChar(c) ==
    IF \E i \in 1..Len(LowerChars) : LowerChars[i] = c
    THEN UpperChars[CHOOSE i \in 1..Len(LowerChars) : LowerChars[i] = c]
    ELSE c

\* cat.replace("_", " ").title()
category_name(cat) ==
    LET spaced == [i \in 1..Len(cat) |-> IF cat[i] = "_" THEN " " ELSE cat[i]]
    IN  [i \in 1..Len(spaced) |->
            IF i = 1 \/ ~ IsLetter(spaced[i - 1])
            THEN UpperChar(spaced[i]) ELSE LowerChar(spaced[i])]

\* the keys of training_catalog, in dict order
RECURSIVE categories_of(_)
categories_of(catalog) ==
    IF catalog = << >> THEN << >>
    ELSE << Head(catalog).category >>
         \o categories_of(SelectSeq(Tail(catalog),
                                    LAMBDA p : p.category # Head(catalog).category))

\* the try block of TrainingAgent.get_training_catalog: cat.replace raises
\* on a category that is not a str
get_training_catalog_body(catalog, category_arg) ==
    LET category == dict_get(category_arg, PyStr(<< "a", "l", "l" >>))
    IN  IF category.t # "str" THEN Raised("AttributeError")
        ELSE LET cats == IF category.v = << "a", "l", "l" >>
                         THEN categories_of(catalog) ELSE << category.v >>
                 programs_of(cat) == SelectSeq(catalog, LAMBDA p : p.category = cat)
             IN  Returned(
                 [ success |-> TRUE,
                   catalog |-> [i \in 1..Len(cats) |->
                                   [ category      |-> cats[i],
                                     category_name |-> category_name(cats[i]),
                                     programs      |-> programs_of(cats[i]),
                                     program_count |-> Len(programs_of(cats[i])) ]],
                   total_programs |->
                       sum_seq([i \in 1..Len(cats) |-> Len(programs_of(cats[i]))]),
                   categories |-> cats ])

\* the failure dict of get_training_catalog
catalog_failure(error) ==
    [success |-> FALSE, error |-> "Failed to retrieve training catalog"]

\* TrainingAgent.get_training_catalog
get_training_catalog(catalog, category_arg) ==
    try_except(get_training_catalog_body(catalog, category_arg), catalog_failure)

----------------------------------------------------------------------------
(* The JSON-RPC-over-stdio servers: requests, tools and handle_request.    *)
(* Method names and tool names are only ever compared, so they are kept    *)
(* as strings; the arguments handed to the training agent are the values   *)
(* the agent computes with.                                                *)

\* a request object; a key that is not in the object holds Absent
Request(method, id, params) ==
    [t |-> "dict", method |-> method, id |-> id, params |-> params]

\* the params object of a tools/call request
ToolCall(name, arguments) == [t |-> "dict", name |-> name, arguments |-> arguments]

\* the keys a tool of either server accepts as keyword arguments
ArgumentKeys ==
    { "consultant_id", "current_skills", "missing_skills", "experience_level",
      "career_goals", "consultant_skills", "target_skills", "name",
      "experience_years", "enrollment_id", "progress_data", "category",
      "resume_text", "filename" }

\* the arguments object {}
NoArguments == [t |-> "dict", keys |-> [k \in ArgumentKeys |-> Absent]]

\* an arguments object with the given keys
Arguments(given) ==
    [ t |-> "dict",
      keys |-> [k \in ArgumentKeys |-> IF k \in DOMAIN given THEN given[k] ELSE Absent] ]

\* tool(**arguments): the call binds when arguments is a dict that gives
\* every parameter without a default and no key that is not a parameter;
\* otherwise it raises TypeError before the tool runs
binds(arguments, required, optional) ==
    /\ arguments.t = "dict"
    /\ LET passed == { k \in ArgumentKeys : arguments.keys[k].t # "absent" }
       IN  /\ required \subseteq passed
           /\ passed \subseteq (required \cup optional)

\* a response object: result or error, never both
ResultResponse(id, result) ==
    [id |-> id, kind |-> "result", code |-> 0, result |-> result]

\* the result of a tools/call: {"content": [{"type": "text", "text":
\* json.dumps(result)}]}; the text is kept as the value it encodes
Content(result) == [content |-> result]

ErrorResponse(id, code) ==
    [id |-> id, kind |-> "error", code |-> code, result |-> [error |-> TRUE]]

\* what handle_request did: the response it returned, or that an exception
\* left it, and the tool it awaited ("none" when it awaited no tool)
Handled(response, invoked) ==
    [raised |-> FALSE, response |-> response, invoked |-> invoked]

Unhandled == [raised |-> TRUE, response |-> [none |-> TRUE], invoked |-> "none"]

\* a plausible slip: the error of the except clause used for an unknown method
method_not_found_as_internal_error(request_id) == ErrorResponse(request_id, -32603)

\* the else branch of handle_request: {"error": {"code": -32601, ...}}
method_not_found(request_id) == ErrorResponse(request_id, -32601)

\* the except clause of handle_request: request.get("id", 1) is evaluated
\* again, and raises again when request is not a dict
internal_error(request, invoked) ==
    IF request.t # "dict" THEN Unhandled
    ELSE Handled(ErrorResponse(dict_get(request.id, PyInt(1)), -32603), invoked)

\* the result of a tool call, or the TypeError of a call that does not bind
ToolResult(result, invoked) == [raised |-> FALSE, result |-> result, invoked |-> invoked]

ToolRaised == [raised |-> TRUE, result |-> [none |-> TRUE], invoked |-> "none"]

\* ProfessionalTrainingMCPServer.generate_training_recommendations
server_generate_training_recommendations(catalog, a) ==
    [ success         |-> TRUE,
      recommendations |->
          generate_training_recommendations(
              catalog,
              [ t |-> "dict", consultant_id |-> a.consultant_id,
                skills |-> a.current_skills, missing_skills |-> a.missing_skills,
                experience_level |-> dict_get(a.experience_level, PyStr(s_intermediate)),
                target_skills |-> Absent, experience_years |-> Absent ]).result ]

\* ProfessionalTrainingMCPServer.analyze_skill_gaps
server_analyze_skill_gaps(a) ==
    [ success            |-> TRUE,
      skill_gap_analysis |-> analyze_skill_gaps(a.consultant_skills, a.target_skills).result ]

\* ProfessionalTrainingMCPServer.create_skill_development_plan
server_create_skill_development_plan(catalog, a) ==
    [ success          |-> TRUE,
      development_plan |->
          generate_skill_development_plan(
              catalog,
              [ t |-> "dict", consultant_id |-> a.consultant_id,
                skills |-> a.current_skills, missing_skills |-> Absent,
                experience_level |-> Absent, target_skills |-> a.target_skills,
                experience_years |-> dict_get(a.experience_years, PyInt(3)) ]).result ]

\* ProfessionalTrainingMCPServer.track_training_progress
server_track_training_progress(a) ==
    [ success         |-> TRUE,
      progress_update |-> track_training_progress(a.enrollment_id, a.progress_data).result ]

\* ProfessionalTrainingMCPServer.get_training_catalog: a category that is
\* not a str raises in catalog.get (unhashable) or in cat.replace, and the
\* except clause returns the failure dict
server_get_training_catalog(catalog, a) ==
    LET category == dict_get(a.category, PyStr(<< "a", "l", "l" >>))
    IN  IF category.t # "str"
        THEN [success |-> FALSE, error |-> "Failed to retrieve training catalog"]
        ELSE with(IF category.v = << "a", "l", "l" >>
                  THEN categories_of(catalog) ELSE << category.v >>,
             LAMBDA cats :
                 [ success |-> TRUE,
                   catalog |->
                       [i \in 1..Len(cats) |->
                           with(SelectSeq(catalog, LAMBDA p : p.category = cats[i]),
                                LAMBDA programs :
                                    [ category      |-> cats[i],
                                      category_name |-> category_name(cats[i]),
                                      programs      |-> programs,
                                      program_count |-> Len(programs) ])],
                   total_programs |->
                       Len(SelectSeq(catalog,
                                     LAMBDA p : \E i \in 1..Len(cats) :
                                                    p.category = cats[i])),
                   categories |-> cats ])

\* the if/elif chain on tool_name in the training server's tools/call branch
training_tool(catalog, tool_name, arguments) ==
    IF tool_name.t = "str" /\ tool_name.v = "generate_training_recommendations"
    THEN IF binds(arguments, { "consultant_id", "current_skills", "missing_skills" },
                  { "experience_level", "career_goals" })
         THEN ToolResult(server_generate_training_recommendations(catalog, arguments.keys),
                         "generate_training_recommendations")
         ELSE ToolRaised
    ELSE IF tool_name.t = "str" /\ tool_name.v = "analyze_skill_gaps"
    THEN IF binds(arguments, { "consultant_skills", "target_skills" }, { })
         THEN ToolResult(server_analyze_skill_gaps(arguments.keys), "analyze_skill_gaps")
         ELSE ToolRaised
    ELSE IF tool_name.t = "str" /\ tool_name.v = "create_skill_development_plan"
    THEN IF binds(arguments, { "consultant_id", "name", "current_skills", "target_skills" },
                  { "experience_years" })
         THEN ToolResult(server_create_skill_development_plan(catalog, arguments.keys),
                         "create_skill_development_plan")
         ELSE ToolRaised
    ELSE IF tool_name.t = "str" /\ tool_name.v = "track_training_progress"
    THEN IF binds(arguments, { "enrollment_id", "progress_data" }, { })
         THEN ToolResult(server_track_training_progress(arguments.keys),
                         "track_training_progress")
         ELSE ToolRaised
    ELSE IF tool_name.t = "str" /\ tool_name.v = "get_training_catalog"
    THEN IF binds(arguments, { }, { "category" })
         THEN ToolResult(server_get_training_catalog(catalog, arguments.keys),
                         "get_training_catalog")
         ELSE ToolRaised
    ELSE ToolResult([error |-> "Unknown tool"], "none")

\* ProfessionalResumeAnalyzerServer.analyze_resume: the analysis, by the
\* models or by _fallback_analysis; text.lower() raises on a resume_text
\* that is not a str, in the try block and again in the except clause
server_analyze_resume(a) ==
    IF a.resume_text.t # "str"
    THEN [raised |-> TRUE, result |-> [none |-> TRUE], invoked |-> "analyze_resume"]
    ELSE ToolResult([success |-> TRUE, filename |-> dict_get(a.filename, PyStr("resume.txt"))],
                    "analyze_resume")

\* the if/elif chain on tool_name in the resume server's tools/call branch;
\* get_capabilities is called without the arguments
resume_tool(tool_name, arguments) ==
    IF tool_name.t = "str" /\ tool_name.v = "analyze_resume"
    THEN IF binds(arguments, { "resume_text" }, { "filename" })
         THEN server_analyze_resume(arguments.keys)
         ELSE ToolRaised
    ELSE IF tool_name.t = "str" /\ tool_name.v = "get_capabilities"
    THEN ToolResult([status |-> "ready"], "get_capabilities")
    ELSE ToolResult([error |-> "Unknown tool"], "none")

\* the tools/call branch of both servers, given the outcome of the tool:
\* params.get raises on params that are not a dict
tools_call(request, Tool(_, _)) ==
    LET params == dict_get(request.params, [t |-> "dict", name |-> Absent,
                                            arguments |-> Absent])
    IN  IF params.t # "dict" THEN internal_error(request, "none")
        ELSE with(Tool(dict_get(params.name, PyNone),
                       dict_get(params.arguments, NoArguments)),
             LAMBDA called :
                 IF called.raised THEN internal_error(request, called.invoked)
                 ELSE Handled(ResultResponse(dict_get(request.id, PyInt(1)),
                                             Content(called.result)),
                              called.invoked))

\* ProfessionalTrainingMCPServer.handle_request
training_handle_request(catalog, request) ==
    IF request.t # "dict" THEN internal_error(request, "none")
    ELSE IF request.method.t = "str" /\ request.method.v = "initialize"
    THEN Handled(ResultResponse(dict_get(request.id, PyInt(1)),
                                [serverInfo |-> "professional-training-server"]),
                 "none")
    ELSE IF request.method.t = "str" /\ request.method.v = "tools/list"
    THEN Handled(ResultResponse(dict_get(request.id, PyInt(1)),
                                [tools |-> << "generate_training_recommendations",
                                              "analyze_skill_gaps",
                                              "create_skill_development_plan",
                                              "track_training_progress",
                                              "get_training_catalog" >>]),
                 "none")
    ELSE IF request.method.t = "str" /\ request.method.v = "tools/call"
    THEN tools_call(request, LAMBDA tool_name, arguments :
                                 training_tool(catalog, tool_name, arguments))
    ELSE Handled(method_not_found(dict_get(request.id, PyInt(1))), "none")

\* ProfessionalResumeAnalyzerServer.handle_request
resume_handle_request(request) ==
    IF request.t # "dict" THEN internal_error(request, "none")
    ELSE IF request.method.t = "str" /\ request.method.v = "initialize"
    THEN Handled(ResultResponse(dict_get(request.id, PyInt(1)),
                                [serverInfo |-> "professional-resume-analyzer"]),
                 "none")
    ELSE IF request.method.t = "str" /\ request.method.v = "tools/call"
    THEN tools_call(request, resume_tool)
    ELSE Handled(method_not_found(dict_get(request.id, PyInt(1))), "none")

\* an input line: blank, not JSON, or the JSON text of a value
BlankLine == [kind |-> "blank", value |-> PyNone]

InvalidLine == [kind |-> "invalid", value |-> PyNone]

JsonLine(value) == [kind |-> "json", value |-> value]

\* one turn of the loop `for line in sys.stdin` of main(): the response
\* lines it prints and the tool it ran.  A blank line is skipped,
\* json.loads raises JSONDecodeError on a line that is not JSON, and both
\* except clauses only log (to stderr).
main_loop_body(line, handle_request(_)) ==
    IF line.kind # "json" THEN [printed |-> << >>, invoked |-> "none"]
    ELSE with(handle_request(line.value),
         LAMBDA handled :
             IF handled.raised THEN [printed |-> << >>, invoked |-> "none"]
             ELSE [printed |-> << handled.response >>, invoked |-> handled.invoked])

----------------------------------------------------------------------------
(* ProfessionalTrainingClient *)

\* what the client finds when it runs: whether server_path and python_path
\* exist and the exit status of the server process
Environment(server_exists, python_exists, returncode) ==
    [ server_exists |-> server_exists, python_exists |-> python_exists,
      returncode |-> returncode ]

\* an argument that json.dumps cannot encode (a set, an object)
NotSerializable == [t |-> "object", v |-> << >>]

\* init_request of _communicate_with_server
init_request ==
    Request(PyStr("initialize"), PyInt(0), ToolCall(Absent, Absent))

\* the request dict the public methods build
tools_call_request(id, name, given) ==
    Request(PyStr("tools/call"), PyInt(id), ToolCall(PyStr(name), Arguments(given)))

\* json.dumps(request) raises TypeError on a value it cannot encode
serializable(request) ==
    \A k \in ArgumentKeys : request.params.arguments.keys[k].t # "object"

\* what the server process prints for the two request lines: the training
\* server's main() run on them
server_stdout(catalog, request) ==
    main_loop_body(JsonLine(init_request),
                   LAMBDA r : training_handle_request(catalog, r)).printed
    \o main_loop_body(JsonLine(request),
                      LAMBDA r : training_handle_request(catalog, r)).printed

\* _communicate_with_server: the content of the first response line that
\* has a result, an id other than 0 and a content; every exception is
\* logged and raised again
communicate_with_server(environment, catalog, request) ==
    IF ~ environment.server_exists THEN Raised("FileNotFoundError")
    ELSE IF ~ environment.python_exists THEN Raised("FileNotFoundError")
    ELSE IF ~ serializable(request) THEN Raised("TypeError")
    ELSE IF environment.returncode # 0 THEN Raised("Server failed")
    ELSE with(SelectSeq(server_stdout(catalog, request),
                        LAMBDA response :
                            /\ response.kind = "result"
                            /\ response.id # PyInt(0)
                            /\ "content" \in DOMAIN response.result),
         LAMBDA answers :
             IF answers = << >> THEN Raised("No valid response received from server")
             ELSE Returned(answers[1].result.content))

\* the failure dict of the `except Exception` clauses of the client
client_failure(error) == [success |-> FALSE, error |-> error]

\* ProfessionalTrainingClient.get_training_recommendations
client_get_training_recommendations(environment, catalog, a) ==
    try_except(
        communicate_with_server(
            environment, catalog,
            tools_call_request(1, "generate_training_recommendations",
                               [ consultant_id    |-> a.consultant_id,
                                 current_skills   |-> a.current_skills,
                                 missing_skills   |-> a.missing_skills,
                                 experience_level |-> a.experience_level,
                                 career_goals     |-> PyList(<< >>) ])),
        LAMBDA error : [ success |-> FALSE, error |-> error,
                         recommendations |-> << >>, training_catalog |-> << >> ])

\* ProfessionalTrainingClient.analyze_skill_gaps
client_analyze_skill_gaps(environment, catalog, a) ==
    try_except(
        communicate_with_server(
            environment, catalog,
            tools_call_request(2, "analyze_skill_gaps",
                               [ consultant_skills |-> a.consultant_skills,
                                 target_skills     |-> a.target_skills ])),
        client_failure)

\* ProfessionalTrainingClient.create_development_plan
client_create_development_plan(environment, catalog, a) ==
    try_except(
        communicate_with_server(
            environment, catalog,
            tools_call_request(3, "create_skill_development_plan",
                               [ consultant_id    |-> a.consultant_id,
                                 name             |-> a.name,
                                 current_skills   |-> a.current_skills,
                                 target_skills    |-> a.target_skills,
                                 experience_years |-> a.experience_years ])),
        client_failure)

\* ProfessionalTrainingClient.track_progress
client_track_progress(environment, catalog, a) ==
    try_except(
        communicate_with_server(
            environment, catalog,
            tools_call_request(4, "track_training_progress",
                               [ enrollment_id |-> a.enrollment_id,
                                 progress_data |->
                                     [ t |-> "dict",
                                       progress_percentage  |-> a.progress_percentage,
                                       total_duration_hours |-> PyInt(40) ] ])),
        client_failure)

\* ProfessionalTrainingClient.get_training_catalog
client_get_training_catalog(environment, catalog, a) ==
    try_except(
        communicate_with_server(
            environment, catalog,
            tools_call_request(5, "get_training_catalog", [category |-> a.category])),
        LAMBDA error : [success |-> FALSE, error |-> error, catalog |-> << >>])

\* a plausible slip: the programs sorted in place, in the catalog's own list
catalog_after_call_sorted_in_place(method, catalog) ==
    IF method = "generate_training_recommendations"
    THEN sort_by(LAMBDA program : program.rating, TRUE, catalog)
    ELSE catalog

\* No method of TrainingAgent assigns self.training_catalog or mutates a
\* list or dict reachable from it: _find_training_for_skill builds a new
\* list, recommendations.sort and trainings.sort sort lists built by the
\* call, get_training_catalog builds a new dict.  The catalog after a call:
catalog_after_call(method, catalog) == catalog

----------------------------------------------------------------------------
(* Calls of the TrainingAgent methods *)

MaxSkills == 2          \* longest skill list of the first call

MaxLaterSkills == 1     \* longest skill list of the calls after the first

MaxSince == 2           \* calls counted after the remembered one

s_Python  == << "P", "y", "t", "h", "o", "n" >>
s_MongoDB == << "M", "o", "n", "g", "o", "D", "B" >>
s_R       == << "R" >>
s_Rust    == << "R", "u", "s", "t" >>
s_empty   == << >>
s_Senior  == << "S", "e", "n", "i", "o", "r" >>
s_expert  == << "e", "x", "p", "e", "r", "t" >>
s_python_ == << "p", "y", "t", "h", "o", "n", " " >>
s_all         == << "a", "l", "l" >>
s_programming == << "p", "r", "o", "g", "r", "a", "m", "m", "i", "n", "g" >>
s_ai_ml       == << "a", "i", "_", "m", "l" >>

SeqsUpTo(S, n) == UNION { [1..k -> S] : k \in 0..n }

SkillPool ==
    { PyStr(s_Python), PyStr(s_MongoDB), PyStr(s_R), PyStr(s_empty), PyStr(s_Rust), PyNone }

LaterSkillPool == { PyStr(s_R), PyStr(s_MongoDB), PyStr(s_Rust), PyNone }

SkillLists(pool, n) == { PyList(xs) : xs \in SeqsUpTo(pool, n) } \cup { PyNone }

ExperienceLevels ==
    { Absent, PyNone, PyStr(s_junior), PyStr(s_Senior), PyStr(s_expert) }

CurrentSkillsArgs == { PyList(<< >>), PyList(<< PyStr(s_python_) >>), PyNone }

PendingCall(method, args) ==
    [ method |-> method, args |-> args, pending |-> TRUE,
      exception |-> FALSE, propagated |-> FALSE, result |-> << >> ]

GenerateCalls(pool, n) ==
    { PendingCall("generate_training_recommendations", [consultant_data |-> cd]) :
        cd \in { ConsultantData(Absent, m, e, Absent, Absent) :
                    m \in SkillLists(pool, n) \cup { Absent }, e \in ExperienceLevels }
               \cup { NoConsultantData } }

AnalyzeCalls(pool, n) ==
    { PendingCall("analyze_skill_gaps", [consultant_skills |-> c, target_skills |-> g]) :
        c \in CurrentSkillsArgs, g \in SkillLists(pool, n) }

PlanCalls(pool, n) ==
    { PendingCall("generate_skill_development_plan", [consultant_data |-> cd]) :
        cd \in { ConsultantData(c, Absent, Absent, g, y) :
                    c \in { Absent, PyList(<< PyStr(s_python_) >>) },
                    g \in SkillLists(pool, n) \cup { Absent },
                    y \in { Absent, PyNone, PyInt(6) } }
               \cup { NoConsultantData } }

TrackCalls ==
    { PendingCall("track_training_progress", [enrollment_id |-> 7, progress_data |-> d]) :
        d \in { ProgressData(p) :
                  p \in { Absent, PyNone, PyInt(0), PyInt(10), PyInt(30),
                          PyInt(60), PyInt(80), PyInt(100) } }
              \cup { [ t |-> "none", progress_percentage |-> Absent,
                       total_duration_hours |-> Absent ] } }

CatalogCalls ==
    { PendingCall("get_training_catalog", [category |-> c]) :
        c \in { Absent, PyNone, PyStr(s_all), PyStr(s_programming),
                PyStr(s_ai_ml), PyStr(s_Rust) } }

\* the environments of a client call: the repository as it is (no file at
\* server_path), no interpreter at python_path, a server that exits with an
\* error, and the training server installed at server_path
Environments ==
    { Environment(FALSE, TRUE, 0), Environment(TRUE, FALSE, 0),
      Environment(TRUE, TRUE, 1), Environment(TRUE, TRUE, 0) }

ClientCalls ==
    { PendingCall("client.get_training_recommendations",
                  [ environment |-> e, consultant_id |-> PyInt(1),
                    current_skills |-> PyList(<< >>), missing_skills |-> m,
                    experience_level |-> PyStr(s_junior) ]) :
        e \in Environments,
        m \in { PyList(<< PyStr(s_R) >>), PyNone, NotSerializable } }
    \cup
    { PendingCall("client.analyze_skill_gaps",
                  [ environment |-> e, consultant_skills |-> PyList(<< >>),
                    target_skills |-> g ]) :
        e \in Environments, g \in { PyList(<< PyStr(s_Rust) >>), NotSerializable } }
    \cup
    { PendingCall("client.create_development_plan",
                  [ environment |-> e, consultant_id |-> PyInt(1),
                    name |-> PyStr(s_Senior), current_skills |-> PyList(<< >>),
                    target_skills |-> g, experience_years |-> PyInt(3) ]) :
        e \in Environments, g \in { PyList(<< PyStr(s_MongoDB) >>), PyNone } }
    \cup
    { PendingCall("client.track_progress",
                  [ environment |-> e, enrollment_id |-> PyInt(7),
                    progress_percentage |-> p ]) :
        e \in Environments, p \in { PyInt(30), PyNone } }
    \cup
    { PendingCall("client.get_training_catalog",
                  [ environment |-> e, category |-> c ]) :
        e \in Environments, c \in { PyStr(s_all), PyNone } }

FirstCalls ==
    GenerateCalls(SkillPool, MaxSkills) \cup AnalyzeCalls(SkillPool, MaxSkills)
    \cup PlanCalls(SkillPool, MaxSkills) \cup TrackCalls \cup CatalogCalls
    \cup ClientCalls

LaterCalls ==
    GenerateCalls(LaterSkillPool, MaxLaterSkills)
    \cup AnalyzeCalls(LaterSkillPool, MaxLaterSkills)
    \cup PlanCalls(LaterSkillPool, MaxLaterSkills) \cup TrackCalls \cup CatalogCalls

\* the generate_training_recommendations inputs whose first result is kept
\* for comparison with later calls
ProbeInputs ==
    { ConsultantData(Absent, PyList(m), Absent, Absent, Absent) :
        m \in { << >>, << PyStr(s_R) >>, << PyStr(s_MongoDB) >> } }

NothingRemembered == [set |-> FALSE, input |-> << >>, result |-> << >>, since |-> 0]

\* one more call has returned since the remembered one
one_more_call(r) ==
    IF r.set /\ r.since < MaxSince THEN [r EXCEPT !.since = @ + 1] ELSE r

Returns(method, out) ==
    /\ agent_call.pending
    /\ agent_call.method = method
    /\ agent_call' = [agent_call EXCEPT !.pending = FALSE,
                                        !.exception = out.exception,
                                        !.propagated = out.propagated,
                                        !.result = out.result]
    /\ training_catalog' = catalog_after_call(method, training_catalog)

\* a caller invokes a public method of the agent
Invoke ==
    /\ ~ agent_call.pending
    /\ \E call \in LaterCalls : agent_call' = call
    /\ UNCHANGED << training_catalog, remembered >>
    /\ UNCHANGED << mcp_vars, db_vars >>

ReturnGenerateTrainingRecommendations ==
    /\ agent_call.method = "generate_training_recommendations"
    /\ LET consultant_data == agent_call.args.consultant_data
           out == generate_training_recommendations(training_catalog, consultant_data)
       IN  /\ Returns("generate_training_recommendations", out)
           /\ remembered' =
                 IF ~ remembered.set /\ consultant_data \in ProbeInputs
                 THEN [set |-> TRUE, input |-> consultant_data,
                       result |-> out.result, since |-> 0]
                 ELSE one_more_call(remembered)
    /\ UNCHANGED << mcp_vars, db_vars >>

ReturnAnalyzeSkillGaps ==
    /\ agent_call.method = "analyze_skill_gaps"
    /\ Returns("analyze_skill_gaps",
               analyze_skill_gaps(agent_call.args.consultant_skills,
                                  agent_call.args.target_skills))
    /\ remembered' = one_more_call(remembered)
    /\ UNCHANGED << mcp_vars, db_vars >>

ReturnGenerateSkillDevelopmentPlan ==
    /\ agent_call.method = "generate_skill_development_plan"
    /\ Returns("generate_skill_development_plan",
               generate_skill_development_plan(training_catalog,
                                               agent_call.args.consultant_data))
    /\ remembered' = one_more_call(remembered)
    /\ UNCHANGED << mcp_vars, db_vars >>

ReturnTrackTrainingProgress ==
    /\ agent_call.method = "track_training_progress"
    /\ Returns("track_training_progress",
               track_training_progress(agent_call.args.enrollment_id,
                                       agent_call.args.progress_data))
    /\ remembered' = one_more_call(remembered)
    /\ UNCHANGED << mcp_vars, db_vars >>

ReturnGetTrainingCatalog ==
    /\ agent_call.method = "get_training_catalog"
    /\ Returns("get_training_catalog",
               get_training_catalog(training_catalog, agent_call.args.category))
    /\ remembered' = one_more_call(remembered)
    /\ UNCHANGED << mcp_vars, db_vars >>

ReturnClientGetTrainingRecommendations ==
    /\ agent_call.method = "client.get_training_recommendations"
    /\ Returns("client.get_training_recommendations",
               client_get_training_recommendations(agent_call.args.environment,
                                                   training_catalog, agent_call.args))
    /\ remembered' = one_more_call(remembered)
    /\ UNCHANGED << mcp_vars, db_vars >>

ReturnClientAnalyzeSkillGaps ==
    /\ agent_call.method = "client.analyze_skill_gaps"
    /\ Returns("client.analyze_skill_gaps",
               client_analyze_skill_gaps(agent_call.args.environment,
                                         training_catalog, agent_call.args))
    /\ remembered' = one_more_call(remembered)
    /\ UNCHANGED << mcp_vars, db_vars >>

ReturnClientCreateDevelopmentPlan ==
    /\ agent_call.method = "client.create_development_plan"
    /\ Returns("client.create_development_plan",
               client_create_development_plan(agent_call.args.environment,
                                              training_catalog, agent_call.args))
    /\ remembered' = one_more_call(remembered)
    /\ UNCHANGED << mcp_vars, db_vars >>

ReturnClientTrackProgress ==
    /\ agent_call.method = "client.track_progress"
    /\ Returns("client.track_progress",
               client_track_progress(agent_call.args.environment,
                                     training_catalog, agent_call.args))
    /\ remembered' = one_more_call(remembered)
    /\ UNCHANGED << mcp_vars, db_vars >>

ReturnClientGetTrainingCatalog ==
    /\ agent_call.method = "client.get_training_catalog"
    /\ Returns("client.get_training_catalog",
               client_get_training_catalog(agent_call.args.environment,
                                           training_catalog, agent_call.args))
    /\ remembered' = one_more_call(remembered)
    /\ UNCHANGED << mcp_vars, db_vars >>

McpIdle ==
    /\ stdin = << >>
    /\ stdout = << >>
    /\ served = << >>
    /\ server_kind = "none"

DbIdle ==
    /\ users = { }
    /\ profiles = { }
    /\ consultant_skills_table = { }
    /\ resume_analyses = { }
    /\ opportunities = { }
    /\ applications = { }
    /\ next_profile_id = 1
    /\ next_uuid = 1
    /\ assignments = { }
    /\ next_assignment_id = 1
    /\ attendance_chatbot = PyNone
    /\ requests = { }
    /\ running = 0
    /\ responses = { }

TrainInit ==
    /\ training_catalog = InitialTrainingCatalog
    /\ agent_call \in FirstCalls
    /\ remembered = NothingRemembered
    /\ McpIdle
    /\ DbIdle

TrainNext ==
    \/ Invoke
    \/ ReturnGenerateTrainingRecommendations
    \/ ReturnAnalyzeSkillGaps
    \/ ReturnGenerateSkillDevelopmentPlan
    \/ ReturnTrackTrainingProgress
    \/ ReturnGetTrainingCatalog
    \/ ReturnClientGetTrainingRecommendations
    \/ ReturnClientAnalyzeSkillGaps
    \/ ReturnClientCreateDevelopmentPlan
    \/ ReturnClientTrackProgress
    \/ ReturnClientGetTrainingCatalog

TrainSpec == TrainInit /\ [][TrainNext]_vars

----------------------------------------------------------------------------
(* The main() loops of the two servers *)

MaxLines == 2           \* longest input

\* the requests written on the input lines
RequestPool ==
    { Request(PyStr("initialize"), PyInt(0), Absent),
      Request(PyStr("tools/list"), PyInt(2), Absent),
      Request(PyStr("resources/list"), PyInt(3), Absent),
      Request(PyStr("resources/list"), Absent, Absent),
      Request(Absent, PyNone, Absent),
      Request(PyInt(5), PyStr("a"), Absent),
      Request(PyStr("tools/call"), Absent, PyNone),
      Request(PyStr("tools/call"), PyInt(4),
              ToolCall(PyStr("get_training_catalog"), Absent)),
      Request(PyStr("tools/call"), PyInt(5),
              ToolCall(PyStr("analyze_skill_gaps"), Absent)),
      Request(PyStr("tools/call"), PyInt(6),
              ToolCall(PyStr("get_capabilities"), PyNone)),
      Request(PyStr("tools/call"), PyInt(7),
              ToolCall(PyStr("analyze_resume"),
                       Arguments([resume_text |-> PyStr("Python, SQL")]))),
      Request(PyStr("tools/call"), PyInt(8),
              ToolCall(PyStr("analyze_resume"), Arguments([resume_text |-> PyNone]))),
      Request(PyStr("tools/call"), PyInt(9),
              ToolCall(PyStr("generate_training_recommendations"),
                       Arguments([ consultant_id  |-> PyInt(1),
                                   current_skills |-> PyList(<< >>),
                                   missing_skills |-> PyList(<< PyStr(<< "R" >>) >>) ]))) }

\* the input lines: blank, not JSON, a request object, and JSON texts of
\* values that are not objects ([1] and 3)
LinePool ==
    { BlankLine, InvalidLine }
    \cup { JsonLine(request) : request \in RequestPool }
    \cup { JsonLine(PyList(<< PyInt(1) >>)), JsonLine(PyInt(3)) }

\* the record kept of a line that main() has read
Served(line, turn) == [line |-> line, printed |-> turn.printed, invoked |-> turn.invoked]

\* the training server reads the next line
TrainingServerMain ==
    /\ server_kind = "training"
    /\ stdin # << >>
    /\ LET turn == main_loop_body(Head(stdin),
                                  LAMBDA request :
                                      training_handle_request(training_catalog, request))
       IN  /\ stdout' = stdout \o turn.printed
           /\ served' = Append(served, Served(Head(stdin), turn))
    /\ stdin' = Tail(stdin)
    /\ UNCHANGED << server_kind, train_vars, db_vars >>

\* the resume analyzer server reads the next line
ResumeServerMain ==
    /\ server_kind = "resume"
    /\ stdin # << >>
    /\ LET turn == main_loop_body(Head(stdin), resume_handle_request)
       IN  /\ stdout' = stdout \o turn.printed
           /\ served' = Append(served, Served(Head(stdin), turn))
    /\ stdin' = Tail(stdin)
    /\ UNCHANGED << server_kind, train_vars, db_vars >>

NoCall ==
    [ method |-> "none", args |-> << >>, pending |-> FALSE,
      exception |-> FALSE, propagated |-> FALSE, result |-> << >> ]

TrainIdle ==
    /\ training_catalog = InitialTrainingCatalog
    /\ agent_call = NoCall
    /\ remembered = NothingRemembered

McpInit ==
    /\ server_kind \in { "training", "resume" }
    /\ stdin \in SeqsUpTo(LinePool, MaxLines)
    /\ stdout = << >>
    /\ served = << >>
    /\ TrainIdle
    /\ DbIdle

McpNext ==
    \/ TrainingServerMain
    \/ ResumeServerMain

McpSpec == McpInit /\ [][McpNext]_vars

----------------------------------------------------------------------------
(* Properties of the recommendation scorer *)

Returned_from(method) ==
    /\ ~ agent_call.pending
    /\ agent_call.method = method
    /\ ~ agent_call.propagated

GenerateSucceeded ==
    /\ Returned_from("generate_training_recommendations")
    /\ agent_call.result.success

\* the missing_skills and experience_level a successful call worked with
MissingSkillsOf(consultant_data) ==
    dict_get(consultant_data.missing_skills, PyList(<< >>)).v

ExperienceLevelOf(consultant_data) ==
    dict_get(consultant_data.experience_level, PyStr(s_intermediate))

\* a catalog program is a candidate for a missing skill when one of its
\* skills contains the missing skill or is contained in it, ignoring case
IsCandidate(missing_skill, program) ==
    \E k \in 1..Len(program.skills) :
        \/ str_in(lower(missing_skill), lower(program.skills[k]))
        \/ str_in(lower(program.skills[k]), lower(missing_skill))

\* the candidate (missing skill, catalog program) pairs, by position
Candidates(consultant_data) ==
    LET missing_skills == MissingSkillsOf(consultant_data)
    IN  { c \in (1..Len(missing_skills)) \X (1..Len(training_catalog)) :
            /\ missing_skills[c[1]].t = "str"
            /\ IsCandidate(missing_skills[c[1]].v, training_catalog[c[2]]) }

CandidateScore(consultant_data, c) ==
    calculate_recommendation_score(training_catalog[c[2]], << >>,
                                   ExperienceLevelOf(consultant_data).v)

\* C1: the recommendations array of generate_training_recommendations is in
\* non-increasing order of recommendation_score, holds at most 10 entries
\* (all candidates when there are at most 10), and every candidate (missing
\* skill, catalog program) pair left out of it has a score no greater than
\* the lowest score included: each score above the lowest included one
\* occurs in the array as often as among the candidates.
C1_RankedTopTen ==
    GenerateSucceeded =>
        LET consultant_data == agent_call.args.consultant_data
            recs   == agent_call.result.recommendations
            cands  == Candidates(consultant_data)
            lowest == recs[Len(recs)].recommendation_score
        IN  /\ \A k \in 1..(Len(recs) - 1) :
                   recs[k].recommendation_score >= recs[k + 1].recommendation_score
            /\ Len(recs) <= 10
            /\ Len(recs) = (IF Cardinality(cands) < 10 THEN Cardinality(cands) ELSE 10)
            /\ \A c \in cands :
                   LET s == CandidateScore(consultant_data, c)
                   IN  s > lowest =>
                         Cardinality({ d \in cands :
                                         CandidateScore(consultant_data, d) = s })
                         = Cardinality({ k \in 1..Len(recs) :
                                           recs[k].recommendation_score = s })

\* C1 witness: a call with more than 10 candidates, of different scores,
\* returned its top ten
C1_Witness ==
    /\ GenerateSucceeded
    /\ Cardinality(Candidates(agent_call.args.consultant_data)) > 10
    /\ Len(agent_call.result.recommendations) = 10
    /\ agent_call.result.recommendations[1].recommendation_score
         > agent_call.result.recommendations[10].recommendation_score

\* the five factors as the scorer's documentation states them, in
\* hundredths of a point
ClaimedFactors(rec, experience_level) ==
    LET training_level ==
            IF lower(rec.difficulty) = s_beginner THEN 1
            ELSE IF lower(rec.difficulty) = s_advanced THEN 3 ELSE 2
        consultant_level ==
            IF lower(experience_level) = s_junior THEN 1
            ELSE IF lower(experience_level) = s_senior THEN 3 ELSE 2
        apart == IF training_level >= consultant_level
                 THEN training_level - consultant_level
                 ELSE consultant_level - training_level
    IN  [ market_demand |-> rec.market_demand * 30,
          rating        |-> rec.rating * 40,
          level_match   |-> IF apart = 0 THEN 2000 ELSE IF apart = 1 THEN 1500 ELSE 500,
          career_impact |-> IF lower(rec.career_impact) = s_high THEN 1500
                            ELSE IF lower(rec.career_impact) = s_low THEN 500 ELSE 1000,
          cost          |-> IF rec.cost = 0 THEN 1500
                            ELSE IF rec.cost <= 10000 THEN 1200
                            ELSE IF rec.cost <= 20000 THEN 800 ELSE 300 ]

\* C2: for every catalog program and every experience_level string, the
\* recommendation score is the sum of the five factors (market demand,
\* rating, experience-level match, career impact, cost efficiency) rounded
\* to one decimal, and lies between 0 and 100 inclusive.
C2_ScoreIsWeightedSum ==
    GenerateSucceeded =>
        LET recs  == agent_call.result.recommendations
            level == ExperienceLevelOf(agent_call.args.consultant_data)
        IN  \A k \in 1..Len(recs) :
                LET f == ClaimedFactors(recs[k], level.v)
                    total == f.market_demand + f.rating + f.level_match
                             + f.career_impact + f.cost
                    score == recs[k].recommendation_score
                IN  /\ score * 10 - total <= 5
                    /\ total - score * 10 <= 5
                    /\ score >= 0
                    /\ score <= 1000

\* C2 witness: one call scored every program of the catalog for an
\* experience_level that is not a known level
C2_Witness ==
    /\ GenerateSucceeded
    /\ ExperienceLevelOf(agent_call.args.consultant_data).v = s_expert
    /\ \A j \in 1..Len(training_catalog) :
           \E k \in 1..Len(agent_call.result.recommendations) :
               agent_call.result.recommendations[k].training_id = training_catalog[j].id

\* C3: every step of a returned learning path is a recommendation whose
\* skills_covered contains the path's skill_focus, and skill_focus equals,
\* ignoring case, one of the missing skills that were passed in.
C3_LearningPathsBySharedSkill ==
    GenerateSucceeded =>
        LET consultant_data == agent_call.args.consultant_data
            missing_skills  == MissingSkillsOf(consultant_data)
            all_recs == sorted_recommendations(training_catalog, consultant_data).value
            paths    == agent_call.result.learning_paths
        IN  \A p \in 1..Len(paths) :
                /\ \E i \in 1..Len(missing_skills) :
                       lower(missing_skills[i].v) = lower(paths[p].skill_focus)
                /\ \A q \in 1..Len(paths[p].progression) :
                       \E r \in 1..Len(all_recs) :
                           /\ all_recs[r].training_id
                                = paths[p].progression[q].training_id
                           /\ list_in(paths[p].skill_focus, all_recs[r].skills_covered)

\* C3 witness: a learning path with steps from two different programs
C3_Witness ==
    /\ GenerateSucceeded
    /\ \E p \in 1..Len(agent_call.result.learning_paths) :
           LET steps == agent_call.result.learning_paths[p].progression
           IN  \E q1, q2 \in 1..Len(steps) : steps[q1].training_id # steps[q2].training_id

\* the call was given a dict whose missing_skills is absent or a list of str
WellTypedMissingSkills(consultant_data) ==
    /\ consultant_data.t = "dict"
    /\ dict_get(consultant_data.missing_skills, PyList(<< >>)).t = "list"
    /\ \A i \in 1..Len(MissingSkillsOf(consultant_data)) :
           MissingSkillsOf(consultant_data)[i].t = "str"

\* C5: when missing_skills is empty, or no catalog program matches any
\* missing skill, generate_training_recommendations returns success true
\* with empty recommendations and learning_paths, total_recommendations 0
\* and estimated total hours and cost 0.
C5_NoCandidatesIsSuccess ==
    ( /\ ~ agent_call.pending
      /\ agent_call.method = "generate_training_recommendations"
      /\ WellTypedMissingSkills(agent_call.args.consultant_data)
      /\ Candidates(agent_call.args.consultant_data) = { } )
    => /\ ~ agent_call.propagated
       /\ agent_call.result.success
       /\ agent_call.result.recommendations = << >>
       /\ agent_call.result.learning_paths = << >>
       /\ agent_call.result.summary.total_recommendations = 0
       /\ agent_call.result.summary.estimated_total_hours = 0
       /\ agent_call.result.summary.estimated_total_cost = 0

\* C5 witness: a call with a missing skill that no program covers returned
C5_Witness ==
    /\ Returned_from("generate_training_recommendations")
    /\ WellTypedMissingSkills(agent_call.args.consultant_data)
    /\ MissingSkillsOf(agent_call.args.consultant_data) # << >>
    /\ Candidates(agent_call.args.consultant_data) = { }
    /\ agent_call.result.success

----------------------------------------------------------------------------
(* Properties of error handling in the agent and its client *)

\* C6: every public method of TrainingAgent and of
\* ProfessionalTrainingClient returns a dict and raises nothing, whatever it
\* is given, and when an exception occurred inside the method the dict has
\* success false and an error message.
C6_ErrorsReturnedAsFailureDicts ==
    (~ agent_call.pending) =>
        /\ ~ agent_call.propagated
        /\ "success" \in DOMAIN agent_call.result
        /\ agent_call.exception =>
               /\ agent_call.result.success = FALSE
               /\ "error" \in DOMAIN agent_call.result
               /\ agent_call.result.error # ""

\* C6 witness: a client call that could not reach its server returned the
\* failure dict
C6_Witness ==
    /\ Returned_from("client.get_training_recommendations")
    /\ agent_call.exception
    /\ agent_call.result.success = FALSE
    /\ agent_call.result.error = "FileNotFoundError"

----------------------------------------------------------------------------
(* Properties of the JSON-RPC-over-stdio servers *)

\* the lines read so far that parse as JSON
JsonLinesServed == SelectSeq(served, LAMBDA s : s.line.kind = "json")

\* the id a response to this JSON value is to carry: the request's id, 1
\* when it has none
ExpectedId(value) ==
    IF value.t = "dict" THEN dict_get(value.id, PyInt(1)) ELSE PyInt(1)

\* C8: for any sequence of input lines the server writes exactly one
\* response line for each line that parses as JSON, in the order of those
\* lines, each carrying the id of its request (1 when the request has no
\* id); blank lines and lines that are not JSON produce no output.
C8_OneResponsePerJsonLine ==
    /\ Len(stdout) = Len(JsonLinesServed)
    /\ \A i \in 1..Len(stdout) :
           stdout[i].id = ExpectedId(JsonLinesServed[i].line.value)
    /\ \A i \in 1..Len(served) :
           served[i].line.kind # "json" => served[i].printed = << >>

\* the method names the dispatch of each server handles
HandledMethods(kind) ==
    IF kind = "training" THEN { "initialize", "tools/list", "tools/call" }
    ELSE { "initialize", "tools/call" }

\* a request object whose method is none of the handled names
IsUnknownMethod(kind, value) ==
    /\ value.t = "dict"
    /\ ~ (value.method.t = "str" /\ value.method.v \in HandledMethods(kind))

\* C9: a request (a JSON object) whose method is not one of the handled
\* names (initialize, tools/list, tools/call in the training server;
\* initialize, tools/call in the resume analyzer server) is answered with
\* one JSON-RPC error of code -32601 that carries the request's id (1 when
\* it has none), and no tool is invoked for it.
C9_UnknownMethodIsMethodNotFound ==
    \A i \in 1..Len(served) :
        ( /\ served[i].line.kind = "json"
          /\ IsUnknownMethod(server_kind, served[i].line.value) )
        => /\ Len(served[i].printed) = 1
           /\ served[i].printed[1].kind = "error"
           /\ served[i].printed[1].code = -32601
           /\ served[i].printed[1].id = ExpectedId(served[i].line.value)
           /\ served[i].invoked = "none"

\* C9 witness: the resume analyzer server, which has no tools/list, has
\* answered a tools/list request that carries an id
C9_Witness ==
    /\ server_kind = "resume"
    /\ \E i \in 1..Len(served) :
           /\ served[i].line.kind = "json"
           /\ served[i].line.value.t = "dict"
           /\ served[i].line.value.method = PyStr("tools/list")
           /\ served[i].line.value.id = PyInt(2)
           /\ Len(served[i].printed) = 1
           /\ served[i].printed[1].code = -32601

----------------------------------------------------------------------------
(* simple_backend.py on database/professional_connection.py.               *)
(*                                                                         *)
(* The backend is one uvicorn process with one event loop.  A handler is a *)
(* coroutine: it runs until it completes or until an await really          *)
(* suspends it, and only then does the loop run another coroutine.  The    *)
(* database methods are synchronous (each opens a session of its own,      *)
(* commits and closes it), so a call to one never suspends.  In DbSpec the *)
(* database server is taken to be up: a method fails only for the data it  *)
(* is given.  AppSpec also lets one call of a handler lose its connection. *)
(*                                                                         *)
(* Rows are records, tables are sets of rows.  users.id is a uuid string,  *)
(* consultant_profiles.id an autoincremented integer.                      *)

Digits == << "0", "1", "2", "3", "4", "5", "6", "7", "8", "9" >>

\* str(n) for an int n >= 0
RECURSIVE str_of_int(_)
str_of_int(n) ==
    IF n < 10 THEN << Digits[n + 1] >>
    ELSE str_of_int(n \div 10) \o << Digits[(n % 10) + 1] >>

\* str(x): a str is returned as it is
str(x) == IF x.t = "int" THEN PyStr(str_of_int(x.v)) ELSE x

IsDigit(c) == \E i \in 1..Len(Digits) : Digits[i] = c

DigitValue(c) == (CHOOSE i \in 1..Len(Digits) : Digits[i] = c) - 1

RECURSIVE int_of_digits(_)
int_of_digits(s) ==
    IF s = << >> THEN 0
    ELSE 10 * int_of_digits(SubSeq(s, 1, Len(s) - 1)) + DigitValue(s[Len(s)])

\* whether int(x) returns (it raises on None and on a str that is no number);
\* the same strings are the ones PostgreSQL accepts for an integer column
is_integer(x) ==
    \/ x.t = "int"
    \/ /\ x.t = "str"
       /\ x.v # << >>
       /\ \A i \in 1..Len(x.v) : IsDigit(x.v[i])

\* int(x) where it returns
int(x) == IF x.t = "int" THEN x.v ELSE int_of_digits(x.v)

\* str(uuid.uuid4()): hyphenated, never the text of an integer
uuid4(n) == PyStr(<< "u", "u", "i", "d", "-" >> \o str_of_int(n))

\* a row of users
User(id, email, role) == [id |-> id, email |-> email, role |-> role]

\* a row of consultant_profiles
ConsultantProfile(id, user_id, current_status, resume_status) ==
    [ id |-> id, user_id |-> user_id, current_status |-> current_status,
      resume_status |-> resume_status ]

\* a row of opportunity_applications
OpportunityApplication(id, consultant_id, opportunity_id, status) ==
    [ id |-> id, consultant_id |-> consultant_id, opportunity_id |-> opportunity_id,
      status |-> status ]

\* the tables, as one value
Database(us, ps, cs, ras, apps) ==
    [ users |-> us, profiles |-> ps, consultant_skills |-> cs,
      resume_analyses |-> ras, applications |-> apps ]

db == Database(users, profiles, consultant_skills_table, resume_analyses, applications)

\* session.query(ConsultantProfile).filter(...user_id == user.id).first()
profile_of(ps, user) ==
    LET own == { p \in ps : p.user_id = user.id }
    IN  IF own = { } THEN PyNone
        ELSE [t |-> "profile", v |-> CHOOSE p \in own : \A q \in own : p.id <= q.id]

\* the consultant dict built by get_all_consultants and get_consultant
Consultant(id, user, status) ==
    [ id |-> id, user_id |-> user.id, email |-> user.email,
      availability_status |-> status ]

\* ProfessionalDatabase.get_all_consultants: the users of role 'consultant',
\* each with its profile when it has one
get_all_consultants(us, ps) ==
    { with(profile_of(ps, u),
           LAMBDA profile :
               IF profile.t = "none" THEN Consultant(u.id, u, "available")
               ELSE Consultant(PyStr(str_of_int(profile.v.id)), u,
                               profile.v.current_status)) :
      u \in { x \in us : x.role = "consultant" } }

\* ProfessionalDatabase.get_consultant: by profile id; None when int()
\* raises, when no profile has the id or when the profile has no user
get_consultant(us, ps, consultant_id) ==
    IF ~ is_integer(consultant_id) THEN { }
    ELSE { Consultant(PyStr(str_of_int(p.id)), u, p.current_status) :
           << p, u >> \in { pu \in ps \X us : /\ pu[1].id = int(consultant_id)
                                              /\ pu[2].id = pu[1].user_id } }

\* what add_consultant leaves: the tables, the counters and the value returned
Added(us, ps, profile_id, uuid, returned) ==
    [ users |-> us, profiles |-> ps, next_profile_id |-> profile_id,
      next_uuid |-> uuid, returned |-> returned ]

\* ProfessionalDatabase.add_consultant: the id of the user that has the
\* email already, whatever its role; otherwise a new user of role
\* 'consultant' and its profile, and the id of the profile
add_consultant(us, ps, profile_id, uuid, email, availability_status) ==
    IF \E u \in us : u.email = email
    THEN Added(us, ps, profile_id, uuid, (CHOOSE u \in us : u.email = email).id)
    ELSE Added(us \cup { User(uuid4(uuid), email, "consultant") },
               ps \cup { ConsultantProfile(profile_id, uuid4(uuid),
                                           availability_status, "pending") },
               profile_id + 1, uuid + 1, PyInt(profile_id))

\* whether a row with this consultant_id can be read or written: the value
\* must be an integer for the column, and (to insert) the id of a profile
references_profile(ps, consultant_id) ==
    /\ is_integer(consultant_id)
    /\ \E p \in ps : p.id = int(consultant_id)

\* a row of consultant_skills
ConsultantSkill(consultant_id, skill_name, source) ==
    [consultant_id |-> consultant_id, skill_name |-> skill_name, source |-> source]

\* ProfessionalDatabase.add_consultant_skill for each skill in turn: the
\* skill is updated if the consultant has it and added if not; the first
\* call that raises ends the loop, the rows added before it stay
RECURSIVE add_consultant_skills(_, _, _, _)
add_consultant_skills(cs, ps, consultant_id, skills) ==
    IF skills = << >> THEN Returned(cs)
    ELSE IF ~ references_profile(ps, consultant_id) THEN [Raised("DataError") EXCEPT !.value = cs]
    ELSE add_consultant_skills(
             IF \E s \in cs : /\ s.consultant_id = int(consultant_id)
                              /\ s.skill_name = Head(skills)
             THEN cs
             ELSE cs \cup { ConsultantSkill(int(consultant_id), Head(skills), "manual") },
             ps, consultant_id, Tail(skills))

\* a plausible slip: consultant_id returned as the column has it, an int
get_opportunity_applications_int_ids(apps, ps, opportunity_id) ==
    IF ~ is_integer(opportunity_id) THEN { }
    ELSE { [id |-> a.id, consultant_id |-> PyInt(a.consultant_id), status |-> a.status] :
           a \in { x \in apps : /\ x.opportunity_id = int(opportunity_id)
                                /\ \E p \in ps : p.id = x.consultant_id } }

\* ProfessionalDatabase.get_opportunity_applications: the applications to
\* the opportunity whose consultant profile exists, consultant_id as a str;
\* [] when the query raises
get_opportunity_applications(apps, ps, opportunity_id) ==
    IF ~ is_integer(opportunity_id) THEN { }
    ELSE { [id |-> a.id, consultant_id |-> PyStr(str_of_int(a.consultant_id)),
            status |-> a.status] :
           a \in { x \in apps : /\ x.opportunity_id = int(opportunity_id)
                                /\ \E p \in ps : p.id = x.consultant_id } }

\* f"app_{opportunity_id}_{uuid.uuid4().hex[:8]}"
application_id(opportunity_id, uuid) ==
    << "a", "p", "p", "_" >> \o opportunity_id.v \o << "_" >> \o str_of_int(uuid)

\* ProfessionalDatabase.add_application: raises (and stores nothing) when
\* the ids are no integers or name no stored opportunity or profile
add_application(apps, ps, opps, uuid, opportunity_id, consultant_id, status) ==
    IF /\ is_integer(opportunity_id)
       /\ references_profile(ps, consultant_id)
       /\ \E o \in opps : o.id = int(opportunity_id)
    THEN Returned([ applications |->
                        apps \cup { OpportunityApplication(
                                        application_id(opportunity_id, uuid),
                                        int(consultant_id), int(opportunity_id),
                                        status) },
                    id |-> application_id(opportunity_id, uuid) ])
    ELSE Raised("DataError")

\* ProfessionalDatabase.store_resume_analysis_with_skills, on the tables it
\* writes: a resume_analyses row, the extracted skills the consultant does
\* not have yet, and (sync_consultant_data_with_analysis) the profile's
\* resume_status; {"success": False} and no row when the insert raises
store_resume_analysis_with_skills(database, consultant_id, file_name, skills) ==
    IF ~ references_profile(database.profiles, consultant_id)
    THEN [success |-> FALSE, database |-> database]
    ELSE [ success  |-> TRUE,
           database |->
               [ database EXCEPT
                   !.resume_analyses =
                       @ \cup { [ consultant_id |-> int(consultant_id),
                                  file_name |-> file_name ] },
                   !.consultant_skills =
                       @ \cup { ConsultantSkill(int(consultant_id), skills[i],
                                                "resume_ai_analysis") :
                                i \in { j \in 1..Len(skills) :
                                          ~ \E s \in database.consultant_skills :
                                                /\ s.consultant_id = int(consultant_id)
                                                /\ s.skill_name = skills[j] } },
                   !.profiles =
                       { IF p.id = int(consultant_id)
                         THEN [p EXCEPT !.resume_status = "updated"] ELSE p :
                         p \in database.profiles } ] ]

----------------------------------------------------------------------------
(* Requests and the event loop *)

\* the status of a response whose route declares no status_code
default_status_code == 200

\* the AttendanceChatbot(db) the module holds once it is initialised
AttendanceChatbot == [t |-> "AttendanceChatbot", v |-> << >>]

\* what a request carries; a field its handler does not read holds PyNone
RequestArgs(email, skills, consultant_id, opportunity_id, file_name, spooled) ==
    [ email |-> email, skills |-> skills, consultant_id |-> consultant_id,
      opportunity_id |-> opportunity_id, file_name |-> file_name,
      spooled |-> spooled,
      \* ConsultantCreate.availability_status, with its default
      availability_status |-> "available",
      \* the path and body fields of the application and opportunity routes
      application_id |-> PyNone, action |-> PyNone, status |-> PyNone,
      \* AttendanceQuery.question
      question |-> PyNone,
      \* the database call of the handler that fails, if one does
      fails_at |-> "nowhere" ]

NothingSeen == Database({ }, { }, { }, { }, { })

\* a request in flight: pc is the point its coroutine has reached,
\* consultant_id a local of the handler, seen the tables as the request's
\* latest database call left them
HttpRequest(id, handler, args) ==
    [ id |-> id, handler |-> handler, args |-> args, pc |-> "start",
      consultant_id |-> PyNone, seen |-> NothingSeen ]

\* a completed request
HttpResponse(request, status, detail, body_id) ==
    [ id |-> request.id, handler |-> request.handler, args |-> request.args,
      status |-> status, detail |-> detail, body_id |-> body_id ]

\* a plausible slip: every database call treated as an await that yields
\* to the event loop
every_call_suspends(request) == TRUE

\* whether the await the coroutine has reached suspends it.  The only await
\* between two database calls of these handlers is `await file.read()` in
\* upload_resume: UploadFile.read returns at once for a file held in memory
\* and goes through the thread pool for one spooled to disk.
may_suspend(request) ==
    /\ request.handler = "upload_resume"
    /\ request.pc = "found"
    /\ request.args.spooled

\* the request the loop runs once `request` has taken a step to `pc`
running_after(request) == IF may_suspend(request) THEN 0 ELSE request.id

\* the coroutine of `request` can take its next step: it is the running
\* one, or none is running and the loop picks it
can_step(request, handler, pc) ==
    /\ request.handler = handler
    /\ request.pc = pc
    /\ running \in { 0, request.id }

\* the coroutine moves on inside the handler
Continue(request, next) ==
    /\ requests' = (requests \ { request }) \cup { next }
    /\ running' = running_after(next)
    /\ UNCHANGED responses

\* the handler returns or raises HTTPException
Respond(request, status, detail, body_id) ==
    /\ requests' = requests \ { request }
    /\ running' = 0
    /\ responses' = responses \cup { HttpResponse(request, status, detail, body_id) }

Emails == { "ann@example.com", "bob@example.com", "admin@example.com" }

s_python == << "P", "y", "t", "h", "o", "n" >>

\* the most requests of one run
MaxRequests == 2

CreateConsultantRequests ==
    { RequestArgs(e, s, PyNone, PyNone, PyNone, FALSE) :
      e \in Emails, s \in { << >>, << s_python >> } }

ApplyRequests ==
    { RequestArgs(c[1], << >>, c[2], PyStr(o), PyNone, FALSE) :
      c \in { << "ann@example.com", PyNone >>, << "bob@example.com", PyNone >>,
              << "ann@example.com", PyInt(1) >>, << "ann@example.com", PyInt(2) >> },
      o \in { << "1" >>, << "7" >> } }

UploadResumeRequests ==
    { RequestArgs(e, << s_python >>, PyNone, PyNone, "cv.txt", sp) :
      e \in { "ann@example.com", "bob@example.com" }, sp \in BOOLEAN }
    \cup { RequestArgs("ann@example.com", << >>, PyNone, PyNone, "cv.exe", FALSE) }

\* a request arrives
Receive ==
    /\ Cardinality(requests) + Cardinality(responses) < MaxRequests
    /\ \E handler \in { "create_consultant", "apply_to_opportunity", "upload_resume" } :
       \E args \in (IF handler = "create_consultant" THEN CreateConsultantRequests
                    ELSE IF handler = "apply_to_opportunity" THEN ApplyRequests
                    ELSE UploadResumeRequests) :
           requests' = requests \cup
               { HttpRequest(Cardinality(requests) + Cardinality(responses) + 1,
                             handler, args) }
    /\ UNCHANGED << running, responses, users, profiles, consultant_skills_table,
                    resume_analyses, opportunities, applications,
                    next_profile_id, next_uuid, assignments, next_assignment_id,
                    attendance_chatbot,
                    train_vars, mcp_vars >>

tables == << users, profiles, consultant_skills_table, resume_analyses, opportunities,
             applications, next_profile_id, next_uuid,
             assignments, next_assignment_id >>

\* create_consultant, up to the email check
CreateConsultantCheck ==
    \E r \in requests :
        /\ can_step(r, "create_consultant", "start")
        /\ IF \E c \in get_all_consultants(users, profiles) : c.email = r.args.email
           THEN Respond(r, 400, "Email already exists", PyNone)
           ELSE Continue(r, [r EXCEPT !.pc = "checked", !.seen = db])
        /\ UNCHANGED << tables, attendance_chatbot,
                    train_vars, mcp_vars >>

\* create_consultant, from db.add_consultant to the end
CreateConsultantWrite ==
    \E r \in requests :
        /\ can_step(r, "create_consultant", "checked")
        /\ LET added == add_consultant(users, profiles, next_profile_id, next_uuid,
                                       r.args.email, r.args.availability_status)
           IN  /\ users' = added.users
               /\ profiles' = added.profiles
               /\ next_profile_id' = added.next_profile_id
               /\ next_uuid' = added.next_uuid
               /\ LET skills == add_consultant_skills(consultant_skills_table, added.profiles,
                                                      added.returned, r.args.skills)
                  IN  /\ consultant_skills_table' = skills.value
                      /\ IF skills.raised
                         THEN Respond(r, 500, skills.error, PyNone)
                         ELSE Respond(r, default_status_code,
                                      "Consultant created successfully", added.returned)
        /\ UNCHANGED << resume_analyses, opportunities, applications,
                        assignments, next_assignment_id, attendance_chatbot,
                    train_vars, mcp_vars >>

\* apply_to_opportunity, up to the consultant: by email when consultant_id
\* is None or 0, by id otherwise
ApplyFind ==
    \E r \in requests :
        /\ can_step(r, "apply_to_opportunity", "start")
        /\ LET found ==
                   IF r.args.consultant_id.t = "none" \/ r.args.consultant_id.v = 0
                   THEN { c.id : c \in { x \in get_all_consultants(users, profiles) :
                                           x.email = r.args.email } }
                   ELSE { r.args.consultant_id :
                          c \in get_consultant(users, profiles, r.args.consultant_id) }
           IN  IF found = { }
               THEN Respond(r, 404, "Consultant not found", PyNone)
               ELSE Continue(r, [r EXCEPT !.pc = "found", !.seen = db,
                                          !.consultant_id = CHOOSE id \in found : TRUE])
        /\ UNCHANGED << tables, attendance_chatbot,
                    train_vars, mcp_vars >>

\* apply_to_opportunity, the already-applied check
ApplyCheck ==
    \E r \in requests :
        /\ can_step(r, "apply_to_opportunity", "found")
        /\ IF \E a \in get_opportunity_applications(applications, profiles,
                                                    r.args.opportunity_id) :
                  a.consultant_id = str(r.consultant_id)
           THEN Respond(r, 400, "Already applied to this opportunity", PyNone)
           ELSE Continue(r, [r EXCEPT !.pc = "checked", !.seen = db])
        /\ UNCHANGED << tables, attendance_chatbot,
                    train_vars, mcp_vars >>

\* apply_to_opportunity, from db.add_application to the end
ApplyWrite ==
    \E r \in requests :
        /\ can_step(r, "apply_to_opportunity", "checked")
        /\ LET added == add_application(applications, profiles, opportunities, next_uuid,
                                        r.args.opportunity_id, str(r.consultant_id),
                                        "pending")
           IN  IF added.raised
               THEN /\ Respond(r, 500, added.error, PyNone)
                    /\ UNCHANGED << applications, next_uuid >>
               ELSE /\ Respond(r, default_status_code,
                               "Application submitted successfully",
                               PyStr(added.value.id))
                    /\ applications' = added.value.applications
                    /\ next_uuid' = next_uuid + 1
        /\ UNCHANGED << users, profiles, consultant_skills_table, resume_analyses,
                        opportunities, next_profile_id,
                        assignments, next_assignment_id, attendance_chatbot,
                    train_vars, mcp_vars >>

\* Path(file.filename).suffix.lower() in ['.pdf', '.txt']
allowed_extension(file_name) == file_name \in { "cv.txt", "cv.pdf" }

\* upload_resume, up to `await file.read()`
UploadFind ==
    \E r \in requests :
        /\ can_step(r, "upload_resume", "start")
        /\ IF ~ allowed_extension(r.args.file_name)
           THEN Respond(r, 400, "Only PDF and TXT files are allowed", PyNone)
           ELSE LET found == { c.id : c \in { x \in get_all_consultants(users, profiles) :
                                                x.email = r.args.email } }
                IN  IF found = { }
                    THEN Respond(r, 404, "Consultant not found", PyNone)
                    ELSE Continue(r, [r EXCEPT !.pc = "found", !.seen = db,
                                               !.consultant_id = CHOOSE id \in found : TRUE])
        /\ UNCHANGED << tables, attendance_chatbot,
                    train_vars, mcp_vars >>

\* upload_resume, from the analysis to the end: the analysis succeeds (the
\* client falls back to pattern matching when the server fails) and is
\* stored; when storing fails the handler falls off its end and answers null
UploadStore ==
    \E r \in requests :
        /\ can_step(r, "upload_resume", "found")
        /\ LET stored == store_resume_analysis_with_skills(db, r.consultant_id,
                                                           r.args.file_name, r.args.skills)
           IN  /\ profiles' = stored.database.profiles
               /\ consultant_skills_table' = stored.database.consultant_skills
               /\ resume_analyses' = stored.database.resume_analyses
               /\ Respond(r, default_status_code,
                          IF stored.success THEN "Resume analyzed" ELSE "null", PyNone)
        /\ UNCHANGED << users, opportunities, applications, next_profile_id, next_uuid,
                        assignments, next_assignment_id, attendance_chatbot,
                    train_vars, mcp_vars >>

\* the database as init_sample_data leaves it, cut down: an admin, and a
\* consultant with her profile; one open opportunity
DbInit ==
    /\ users = { User(uuid4(1), "admin@example.com", "admin"),
                 User(uuid4(2), "ann@example.com", "consultant") }
    /\ profiles = { ConsultantProfile(1, uuid4(2), "available", "pending") }
    /\ consultant_skills_table = { }
    /\ resume_analyses = { }
    /\ opportunities = { [id |-> 1, status |-> "open"] }
    /\ applications = { }
    /\ next_profile_id = 2
    /\ next_uuid = 3
    /\ assignments = { }
    /\ next_assignment_id = 1
    /\ attendance_chatbot = AttendanceChatbot
    /\ requests = { }
    /\ running = 0
    /\ responses = { }
    /\ TrainIdle
    /\ McpIdle

DbNext ==
    \/ Receive
    \/ CreateConsultantCheck
    \/ CreateConsultantWrite
    \/ ApplyFind
    \/ ApplyCheck
    \/ ApplyWrite
    \/ UploadFind
    \/ UploadStore

DbSpec == DbInit /\ [][DbNext]_vars

----------------------------------------------------------------------------
(* Requests and the database *)

\* the handlers whose check-then-write sequence the claim names
CheckThenWriteHandlers == { "create_consultant", "apply_to_opportunity" }

\* C7 (as amended): a create_consultant or apply_to_opportunity request that
\* has made its check and not yet its write finds the tables exactly as its
\* own latest database call left them: no other request has read-modified
\* the database between its check and its write.
C7_CheckThenWriteSeesNoChange ==
    \A r \in requests :
        (r.handler \in CheckThenWriteHandlers /\ r.pc \in { "found", "checked" })
            => r.seen = db

\* C7's case: a create_consultant or apply_to_opportunity request stands
\* between its check and its write while an upload_resume request, suspended
\* in `await file.read()`, is in flight as well
C7_Witness ==
    \E r \in requests, u \in requests :
        /\ r.handler \in CheckThenWriteHandlers
        /\ r.pc = "checked"
        /\ u.handler = "upload_resume"
        /\ u.pc = "found"
        /\ u.id < r.id

\* C7 as stated: the database calls of one request are never interleaved
\* with those of another, so every request that has begun its database
\* calls finds the tables as its own latest call left them.
C7_RequestsSerialize ==
    \A r \in requests : r.pc # "start" => r.seen = db

\* C10 as stated: a successful POST /api/consultants answers 201 and its id
\* identifies a stored consultant whose email is the email of the request.
C10_Created201WithGivenEmail ==
    \A response \in responses :
        (response.handler = "create_consultant" /\ response.status \in 200..299)
            => /\ response.status = 201
               /\ \E c \in get_consultant(users, profiles, response.body_id) :
                      c.email = response.args.email

----------------------------------------------------------------------------
(* The application and opportunity routes of simple_backend.py.  None of   *)
(* their handlers awaits, so each runs from its first line to its response *)
(* in one step of the event loop.                                          *)

\* a row of consultant_assignments
ConsultantAssignment(id, consultant_id, opportunity_id, status) ==
    [ id |-> id, consultant_id |-> consultant_id, opportunity_id |-> opportunity_id,
      status |-> status ]

\* ProfessionalDatabase.get_application_by_id: the row with the id, if any
get_application_by_id(apps, app_id) ==
    { a \in apps : a.id = app_id }

\* ProfessionalDatabase.update_application_status: the row with the id gets
\* the status, whatever status it has
update_application_status(apps, app_id, status) ==
    { IF a.id = app_id THEN [a EXCEPT !.status = status] ELSE a : a \in apps }

\* status_mapping.get(availability_status, availability_status)
status_mapping(availability_status) ==
    IF availability_status \in { "busy", "active" } THEN "on_project"
    ELSE availability_status

\* ProfessionalDatabase.update_consultant_status: current_status is set
\* from status when one is given (a str that is not empty), and only
\* otherwise from availability_status; "" stands for an argument left out.
\* consultant_id is the id of a profile, as an int or as its text
update_consultant_status(ps, consultant_id, status, availability_status) ==
    { IF p.id # int(consultant_id) THEN p
      ELSE IF status # "" THEN [p EXCEPT !.current_status = status]
      ELSE IF availability_status # ""
      THEN [p EXCEPT !.current_status = status_mapping(availability_status)]
      ELSE p :
      p \in ps }

\* what add_consultant_assignment leaves: the table and its autoincrement
Assigned(asg, next_id) == [assignments |-> asg, next_assignment_id |-> next_id]

\* a plausible slip: the assignment inserted without looking for one
add_consultant_assignment_unchecked(asg, next_id, consultant_id, opportunity_id) ==
    Assigned(asg \cup { ConsultantAssignment(next_id, int(consultant_id),
                                             int(opportunity_id), "active") },
             next_id + 1)

\* ProfessionalDatabase.add_consultant_assignment: nothing is added when the
\* consultant has an active assignment to the opportunity
add_consultant_assignment(asg, next_id, consultant_id, opportunity_id) ==
    IF \E x \in asg : /\ x.consultant_id = int(consultant_id)
                      /\ x.opportunity_id = int(opportunity_id)
                      /\ x.status = "active"
    THEN Assigned(asg, next_id)
    ELSE Assigned(asg \cup { ConsultantAssignment(next_id, int(consultant_id),
                                                  int(opportunity_id), "active") },
                  next_id + 1)

\* ProfessionalDatabase.get_consultant_assignments: the active assignments
\* of the consultant whose opportunity is stored
get_consultant_assignments(asg, opps, consultant_id) ==
    IF ~ is_integer(consultant_id) THEN { }
    ELSE { x \in asg : /\ x.consultant_id = int(consultant_id)
                       /\ x.status = "active"
                       /\ \E o \in opps : o.id = x.opportunity_id }

\* ProfessionalDatabase.get_all_opportunities, on a table that has rows:
\* every opportunity, its id as a str
get_all_opportunities(opps) ==
    { [id |-> PyStr(str_of_int(o.id)), status |-> o.status] : o \in opps }

\* the tables the application routes write, as one value
Stored(apps, ps, asg, next_id) ==
    [ applications |-> apps, profiles |-> ps, assignments |-> asg,
      next_assignment_id |-> next_id ]

stored == Stored(applications, profiles, assignments, next_assignment_id)

\* what a run of database calls leaves, and whether one of them raised
Wrote(raised, s) == [raised |-> raised, stored |-> s]

\* the database calls of an accept, in the order of the code.  Each call
\* commits in a session of its own; the call named by fails_at raises, its
\* session is rolled back and the calls after it are not made.
\* increment_opportunity_accepted_count writes nothing.
accept_writes(s, app_id, consultant_id, opportunity_id, fails_at) ==
    IF fails_at = "update_application_status" THEN Wrote(TRUE, s)
    ELSE with([s EXCEPT !.applications =
                   update_application_status(s.applications, app_id, "accepted")],
         LAMBDA s1 :
    IF fails_at = "update_consultant_status" THEN Wrote(TRUE, s1)
    ELSE with([s1 EXCEPT !.profiles =
                   update_consultant_status(s1.profiles, consultant_id, "active", "busy")],
         LAMBDA s2 :
    IF fails_at = "add_consultant_assignment" THEN Wrote(TRUE, s2)
    ELSE with(add_consultant_assignment(s2.assignments, s2.next_assignment_id,
                                        consultant_id, opportunity_id),
         LAMBDA added :
             Wrote(FALSE, [s2 EXCEPT !.assignments = added.assignments,
                                     !.next_assignment_id = added.next_assignment_id]))))

\* a plausible slip: the simplified endpoint storing 'rejected' for a
\* rejection
reject_writes_rejected(s, app_id, fails_at) ==
    IF fails_at = "update_application_status" THEN Wrote(TRUE, s)
    ELSE Wrote(FALSE, [s EXCEPT !.applications =
                           update_application_status(s.applications, app_id,
                                                     "rejected")])

\* the database call of decline_application
decline_writes(s, app_id, fails_at) ==
    IF fails_at = "update_application_status" THEN Wrote(TRUE, s)
    ELSE Wrote(FALSE, [s EXCEPT !.applications =
                           update_application_status(s.applications, app_id,
                                                     "declined")])

\* the database call of handle_application_action for 'reject'
reject_writes(s, app_id, fails_at) ==
    IF fails_at = "update_application_status" THEN Wrote(TRUE, s)
    ELSE Wrote(FALSE, [s EXCEPT !.applications =
                           update_application_status(s.applications, app_id,
                                                     "declined")])

\* accept_application and decline_application: the application is looked
\* for among those of the opportunity in the path
application_of_opportunity(apps, ps, opportunity_id, app_id) ==
    { a \in get_opportunity_applications(apps, ps, opportunity_id) :
        a.id = app_id }

\* what a handler of the application routes answers and leaves
Answered(status, detail, s) == [status |-> status, detail |-> detail, stored |-> s]

\* the except clauses of the handlers: str(e) of a database error on a 500
answer(wrote, detail) ==
    IF wrote.raised THEN Answered(500, "OperationalError", wrote.stored)
    ELSE Answered(default_status_code, detail, wrote.stored)

\* POST /api/opportunities/{opportunity_id}/applications/{application_id}/accept
accept_application(s, opportunity_id, app_id, fails_at) ==
    with(application_of_opportunity(s.applications, s.profiles, opportunity_id,
                                    app_id),
         LAMBDA found :
             IF found = { } THEN Answered(404, "Application not found", s)
             ELSE answer(accept_writes(s, app_id,
                                       (CHOOSE a \in found : TRUE).consultant_id,
                                       opportunity_id, fails_at),
                         "Application accepted successfully"))

\* a plausible slip: the status written by id before the application is
\* looked for among those of the opportunity
decline_application_writes_first(s, opportunity_id, app_id, fails_at) ==
    IF application_of_opportunity(s.applications, s.profiles, opportunity_id,
                                  app_id) = { }
    THEN Answered(404, "Application not found",
                  decline_writes(s, app_id, fails_at).stored)
    ELSE answer(decline_writes(s, app_id, fails_at),
                "Application declined successfully")

\* POST /api/opportunities/{opportunity_id}/applications/{application_id}/decline
decline_application(s, opportunity_id, app_id, fails_at) ==
    IF application_of_opportunity(s.applications, s.profiles, opportunity_id,
                                  app_id) = { }
    THEN Answered(404, "Application not found", s)
    ELSE answer(decline_writes(s, app_id, fails_at),
                "Application declined successfully")

\* PUT /api/opportunity-applications/{application_id}/{action}: the
\* opportunity and the consultant are those of the stored application
handle_application_action(s, app_id, action, fails_at) ==
    IF action \notin { "accept", "reject" }
    THEN Answered(400, "Action must be 'accept' or 'reject'", s)
    ELSE with(get_application_by_id(s.applications, app_id),
         LAMBDA found :
             IF found = { } THEN Answered(404, "Application not found", s)
             ELSE IF action = "accept"
             THEN answer(accept_writes(s, app_id,
                                       PyInt((CHOOSE a \in found : TRUE).consultant_id),
                                       PyInt((CHOOSE a \in found : TRUE).opportunity_id),
                                       fails_at),
                         "Application accepted successfully")
             ELSE answer(reject_writes(s, app_id, fails_at),
                         "Application rejected successfully"))

\* get_dashboard_metrics, benchConsultants: the consultants whose 'status'
\* (the profile's current_status, as is 'availability_status') is 'available'
benchConsultants(us, ps) ==
    Cardinality({ c \in get_all_consultants(us, ps) :
                    c.availability_status = "available" })

\* match_consultants_to_opportunity, the ids of the consultants it lists:
\* those not 'busy' that have no application to the opportunity
matched_consultants(us, ps, apps, opportunity_id) ==
    { c.id : c \in { x \in get_all_consultants(us, ps) :
                       /\ x.availability_status # "busy"
                       /\ ~ \E a \in get_opportunity_applications(apps, ps,
                                                                  str(opportunity_id)) :
                              a.consultant_id = str(x.id) } }

valid_statuses == { "open", "in_progress", "closed", "on_hold" }

\* update_opportunity_status: the status and the detail of its answer.  The
\* call that would store the status is commented out in the handler
update_opportunity_status(opps, opportunity_id, new_status) ==
    IF ~ \E o \in get_all_opportunities(opps) : str(o.id) = str(opportunity_id)
    THEN Answered(404, "Opportunity not found", opps)
    ELSE IF new_status \notin valid_statuses
    THEN Answered(400, "Invalid status", opps)
    ELSE Answered(default_status_code, "Opportunity status updated", opps)

----------------------------------------------------------------------------
(* The requests of the application routes *)

\* the most requests of one run of the application routes
MaxAppRequests == 2

unknown_application == << "a", "p", "p", "_", "0" >>

\* the database call that fails while a request is handled, if any
Faults == { "nowhere", "update_application_status", "update_consultant_status",
            "add_consultant_assignment" }

NoArgs == RequestArgs("", << >>, PyNone, PyNone, PyNone, FALSE)

\* the ids a client names: those of the stored applications and one of none
ApplicationIds == { a.id : a \in applications } \cup { unknown_application }

AppRequests(handler) ==
    IF handler = "create_consultant"
    THEN { [NoArgs EXCEPT !.email = "bob@example.com", !.availability_status = a] :
           a \in { "available", "busy" } }
    ELSE IF handler = "apply_to_opportunity"
    THEN { [NoArgs EXCEPT !.email = "ann@example.com", !.consultant_id = c,
                          !.opportunity_id = PyStr(o)] :
           c \in { PyNone, PyInt(1) }, o \in { << "1" >>, << "2" >> } }
    ELSE IF handler \in { "accept_application", "decline_application" }
    THEN { [NoArgs EXCEPT !.opportunity_id = PyInt(o), !.application_id = PyStr(i),
                          !.fails_at = f] :
           o \in { 1, 2 }, i \in ApplicationIds,
           f \in IF handler = "accept_application" THEN Faults
                 ELSE { "nowhere", "update_application_status" } }
    ELSE IF handler = "handle_application_action"
    THEN { [NoArgs EXCEPT !.application_id = PyStr(i), !.action = PyStr(a[1]),
                          !.fails_at = a[2]] :
           i \in ApplicationIds,
           a \in ({ "accept" } \X Faults)
                 \cup ({ "reject" } \X { "nowhere", "update_application_status" })
                 \cup { << "hold", "nowhere" >> } }
    ELSE IF handler = "update_opportunity_status"
    THEN { [NoArgs EXCEPT !.opportunity_id = PyStr(o), !.status = PyStr(st)] :
           o \in { << "1" >>, << "7" >> }, st \in { "closed", "done" } }
    ELSE IF handler = "match_consultants_to_opportunity"
    THEN { [NoArgs EXCEPT !.opportunity_id = PyStr(o)] : o \in { << "1" >>, << "2" >> } }
    ELSE { NoArgs }

AppHandlers ==
    { "create_consultant", "apply_to_opportunity", "accept_application",
      "decline_application", "handle_application_action", "get_dashboard_metrics",
      "match_consultants_to_opportunity", "update_opportunity_status" }

\* a request arrives.  No handler of these routes is ever suspended, so the
\* loop handles the requests one after the other, in the order it picks
\* them: the next one is taken up when the one before is answered
ReceiveApp ==
    /\ requests = { }
    /\ Cardinality(responses) < MaxAppRequests
    /\ \E handler \in AppHandlers :
       \E args \in AppRequests(handler) :
           requests' = requests \cup
               { HttpRequest(Cardinality(requests) + Cardinality(responses) + 1,
                             handler, args) }
    /\ UNCHANGED << running, responses, tables, attendance_chatbot,
                    train_vars, mcp_vars >>

\* the tables are left as a handler of the application routes left them
Store(s) ==
    /\ applications' = s.applications
    /\ profiles' = s.profiles
    /\ assignments' = s.assignments
    /\ next_assignment_id' = s.next_assignment_id
    /\ UNCHANGED << users, consultant_skills_table, resume_analyses, opportunities,
                    next_profile_id, next_uuid, attendance_chatbot,
                    train_vars, mcp_vars >>

AcceptApplication ==
    \E r \in requests :
        /\ can_step(r, "accept_application", "start")
        /\ LET handled == accept_application(stored, r.args.opportunity_id,
                                             r.args.application_id.v, r.args.fails_at)
           IN  /\ Store(handled.stored)
               /\ Respond(r, handled.status, handled.detail, PyNone)

DeclineApplication ==
    \E r \in requests :
        /\ can_step(r, "decline_application", "start")
        /\ LET handled == decline_application(stored, r.args.opportunity_id,
                                              r.args.application_id.v, r.args.fails_at)
           IN  /\ Store(handled.stored)
               /\ Respond(r, handled.status, handled.detail, PyNone)

HandleApplicationAction ==
    \E r \in requests :
        /\ can_step(r, "handle_application_action", "start")
        /\ LET handled == handle_application_action(stored, r.args.application_id.v,
                                                    r.args.action.v, r.args.fails_at)
           IN  /\ Store(handled.stored)
               /\ Respond(r, handled.status, handled.detail, PyNone)

\* GET /api/dashboard/metrics: the answer carries benchConsultants
GetDashboardMetrics ==
    \E r \in requests :
        /\ can_step(r, "get_dashboard_metrics", "start")
        /\ Respond(r, default_status_code, "metrics",
                   PyInt(benchConsultants(users, profiles)))
        /\ UNCHANGED << tables, attendance_chatbot,
                    train_vars, mcp_vars >>

\* POST /api/opportunities/{opportunity_id}/match-consultants: the answer
\* carries the ids of the consultants listed
MatchConsultantsToOpportunity ==
    \E r \in requests :
        /\ can_step(r, "match_consultants_to_opportunity", "start")
        /\ IF ~ \E o \in get_all_opportunities(opportunities) :
                  str(o.id) = str(r.args.opportunity_id)
           THEN Respond(r, 404, "Opportunity not found", PyNone)
           ELSE Respond(r, default_status_code, "matches",
                        [t |-> "set",
                         v |-> matched_consultants(users, profiles, applications,
                                                   r.args.opportunity_id)])
        /\ UNCHANGED << tables, attendance_chatbot,
                    train_vars, mcp_vars >>

\* PUT /api/opportunities/{opportunity_id}/status
UpdateOpportunityStatus ==
    \E r \in requests :
        /\ can_step(r, "update_opportunity_status", "start")
        /\ LET handled == update_opportunity_status(opportunities, r.args.opportunity_id,
                                                    r.args.status.v)
           IN  /\ opportunities' = handled.stored
               /\ Respond(r, handled.status, handled.detail, PyNone)
        /\ UNCHANGED << users, profiles, consultant_skills_table, resume_analyses,
                        applications, next_profile_id, next_uuid,
                        assignments, next_assignment_id, attendance_chatbot,
                    train_vars, mcp_vars >>

\* the database of DbInit with a second open opportunity and the
\* application of the consultant to the first, as apply_to_opportunity
\* stores it
AppInit ==
    /\ users = { User(uuid4(1), "admin@example.com", "admin"),
                 User(uuid4(2), "ann@example.com", "consultant") }
    /\ profiles = { ConsultantProfile(1, uuid4(2), "available", "pending") }
    /\ consultant_skills_table = { }
    /\ resume_analyses = { }
    /\ opportunities = { [id |-> 1, status |-> "open"], [id |-> 2, status |-> "open"] }
    /\ applications =
           add_application({ }, profiles, opportunities, 3, PyStr(<< "1" >>),
                           PyStr(<< "1" >>), "pending").value.applications
    /\ next_profile_id = 2
    /\ next_uuid = 4
    /\ assignments = { }
    /\ next_assignment_id = 1
    /\ attendance_chatbot = AttendanceChatbot
    /\ requests = { }
    /\ running = 0
    /\ responses = { }
    /\ TrainIdle
    /\ McpIdle

AppNext ==
    \/ ReceiveApp
    \/ CreateConsultantCheck
    \/ CreateConsultantWrite
    \/ ApplyFind
    \/ ApplyCheck
    \/ ApplyWrite
    \/ AcceptApplication
    \/ DeclineApplication
    \/ HandleApplicationAction
    \/ GetDashboardMetrics
    \/ MatchConsultantsToOpportunity
    \/ UpdateOpportunityStatus

AppSpec == AppInit /\ [][AppNext]_vars

----------------------------------------------------------------------------
(* Claims about the application and opportunity routes *)

\* the consultants that have no active assignment
unassigned_consultants ==
    { c \in get_all_consultants(users, profiles) :
        get_consultant_assignments(assignments, opportunities, c.id) = { } }

\* C11: the benchConsultants figure of GET /api/dashboard/metrics equals
\* the number of consultants that have no active assignment, after any
\* sequence of creations, applications, accepts, declines and status changes.
C11_BenchIsUnassigned ==
    benchConsultants(users, profiles) = Cardinality(unassigned_consultants)

\* the stored applications of the consultant and the opportunity an apply
\* request names, once the handler has found the consultant
applications_of_pair(request) ==
    { a \in applications : /\ a.consultant_id = int(request.consultant_id)
                           /\ a.opportunity_id = int(request.args.opportunity_id) }

already_applied_answer(response) ==
    /\ response.handler = "apply_to_opportunity"
    /\ response.status = 400
    /\ response.detail = "Already applied to this opportunity"

\* C12: there is at most one application per (consultant, opportunity)
\* pair; an apply by a consultant that has an application to the
\* opportunity is answered 400 'Already applied to this opportunity' and
\* stores nothing, whether the consultant is named by id or by email.
C12_OneApplicationPerPair ==
    [][ /\ \A a \in applications' : \A b \in applications' :
               (a.consultant_id = b.consultant_id /\ a.opportunity_id = b.opportunity_id)
                   => a = b
        /\ \A r \in requests :
               ( /\ r.handler = "apply_to_opportunity"
                 /\ r.pc = "found"
                 /\ applications_of_pair(r) # { }
                 /\ r \notin requests' )
               => /\ \E q \in responses' \ responses :
                         q.id = r.id /\ already_applied_answer(q)
                  /\ applications' = applications
        /\ \A q \in responses' \ responses :
               already_applied_answer(q) => applications' = applications ]_vars

\* a second apply has been refused both to a consultant named by
\* consultant_id and to one named by email
C12_Witness ==
    /\ \E q \in responses : already_applied_answer(q) /\ q.args.consultant_id = PyInt(1)
    /\ \E q \in responses : already_applied_answer(q) /\ q.args.consultant_id = PyNone

\* an accept request, through either endpoint
accept_request(q) ==
    \/ q.handler = "accept_application"
    \/ q.handler = "handle_application_action" /\ q.args.action = PyStr("accept")

\* a decline or reject request
decline_request(q) ==
    \/ q.handler = "decline_application"
    \/ q.handler = "handle_application_action" /\ q.args.action = PyStr("reject")

\* the active assignments of the consultant of an application to its
\* opportunity
assignments_of(a) ==
    { x \in get_consultant_assignments(assignments, opportunities, PyInt(a.consultant_id)) :
        x.opportunity_id = a.opportunity_id }

\* C13: once an accept of an application has succeeded, the consultant has
\* exactly one active assignment to the opportunity, however often the
\* accept is repeated and through whichever of the two accept endpoints.
C13_OneAssignmentPerAccepted ==
    \A q \in responses :
        (accept_request(q) /\ q.status = default_status_code)
        => \A a \in get_application_by_id(applications, q.args.application_id.v) :
               Cardinality(assignments_of(a)) = 1

\* the same application has been accepted through each endpoint
C13_Witness ==
    \E q1 \in responses : \E q2 \in responses :
        /\ q1.handler = "accept_application"
        /\ q2.handler = "handle_application_action"
        /\ accept_request(q2)
        /\ q1.status = default_status_code
        /\ q2.status = default_status_code
        /\ q1.args.application_id = q2.args.application_id
        /\ get_application_by_id(applications, q1.args.application_id.v) # { }

\* C14: whenever a consultant has an active assignment to an opportunity,
\* that consultant has an application to it whose status is 'accepted'.
C14_AssignmentHasAcceptedApplication ==
    \A c \in get_all_consultants(users, profiles) :
        \A x \in get_consultant_assignments(assignments, opportunities, c.id) :
            \E a \in applications : /\ a.consultant_id = x.consultant_id
                                    /\ a.opportunity_id = x.opportunity_id
                                    /\ a.status = "accepted"

\* C15: an application that is 'accepted' or 'declined' keeps its status
\* whatever accept, decline or reject request comes later.
C15_StatusChangesOnlyWhilePending ==
    [][ \A a \in applications :
            a.status # "pending"
            => \A b \in applications' : b.id = a.id => b.status = a.status ]_vars

\* C16: match_consultants_to_opportunity lists, for no opportunity, a
\* consultant that has an accepted application.
C16_AcceptedConsultantNotMatched ==
    \A o \in get_all_opportunities(opportunities) :
        \A c \in get_all_consultants(users, profiles) :
            (\E a \in applications : /\ PyStr(str_of_int(a.consultant_id)) = c.id
                                     /\ a.status = "accepted")
            => c.id \notin matched_consultants(users, profiles, applications, o.id)

\* C17: an accept request that ends in a 500 leaves the applications, the
\* consultants' statuses and the assignments as they were before it.
C17_FailedAcceptChangesNothing ==
    [][ \A q \in responses' \ responses :
            (accept_request(q) /\ q.status = 500)
            => /\ applications' = applications
               /\ profiles' = profiles
               /\ assignments' = assignments ]_vars

\* an accept, decline or action request answered 400 or 404
refused(q) ==
    /\ q.handler \in { "accept_application", "decline_application",
                       "handle_application_action" }
    /\ q.status \in { 400, 404 }

\* C18: an accept, decline or action request answered 400 or 404 changes
\* no application status, no consultant status and no assignment.
C18_RefusedRequestChangesNothing ==
    [][ \A q \in responses' \ responses :
            refused(q) => /\ applications' = applications
                          /\ profiles' = profiles
                          /\ assignments' = assignments ]_vars

\* a request naming a stored application under another opportunity has
\* been answered 404 and one naming an unknown action 400
C18_Witness ==
    /\ \E q \in responses :
           /\ refused(q)
           /\ q.status = 404
           /\ q.handler # "handle_application_action"
           /\ \E a \in applications : /\ a.id = q.args.application_id.v
                                      /\ a.opportunity_id # q.args.opportunity_id.v
    /\ \E q \in responses : refused(q) /\ q.status = 400

\* C19: from the same stored state and for a stored application, the
\* simplified endpoint with 'accept' leaves what accept_application leaves
\* with the application's own opportunity, and with 'reject' what
\* decline_application leaves.
C19_SimplifiedEndpointEquivalent ==
    \A a \in applications : \A f \in Faults :
        /\ handle_application_action(stored, a.id, "accept", f).stored
               = accept_application(stored, PyInt(a.opportunity_id), a.id, f).stored
        /\ handle_application_action(stored, a.id, "reject", f).stored
               = decline_application(stored, PyInt(a.opportunity_id), a.id, f).stored

\* the simplified endpoint has answered a request with success, and a
\* stored application is one that an accept and a decline both change
C19_Witness ==
    /\ \E q \in responses : /\ q.handler = "handle_application_action"
                            /\ q.status = default_status_code
    /\ \E a \in applications :
           /\ handle_application_action(stored, a.id, "accept", "nowhere").stored # stored
           /\ handle_application_action(stored, a.id, "reject", "nowhere").stored # stored

\* the last request for the status of an opportunity that was answered
\* with success
last_status_update(q) ==
    /\ q.handler = "update_opportunity_status"
    /\ q.status = default_status_code
    /\ \A p \in responses :
           ( /\ p.handler = "update_opportunity_status"
             /\ p.status = default_status_code
             /\ p.args.opportunity_id = q.args.opportunity_id )
           => p.id <= q.id

\* C20: after a success answer of PUT /api/opportunities/{id}/status for a
\* valid status, get_all_opportunities reports the opportunity with it.
C20_StatusUpdateIsStored ==
    \A q \in responses :
        last_status_update(q)
        => \E o \in get_all_opportunities(opportunities) :
               o.id = q.args.opportunity_id /\ o.status = q.args.status.v

----------------------------------------------------------------------------
(* The attendance routes of simple_backend.py on utils/attendance_chatbot.py. *)
(* attendance_chatbot is set once, when the module is loaded: to            *)
(* AttendanceChatbot(db), or to None when the import or the constructor     *)
(* raises.  No handler of these routes awaits.                              *)

\* raise HTTPException(status_code=..., detail=...)
HTTPException(status_code, detail) ==
    [raised |-> TRUE, status_code |-> status_code, detail |-> detail]

\* the body of a handler returns
BodyReturned(value) == [raised |-> FALSE, status_code |-> default_status_code,
                        detail |-> value]

\* str(e) of an HTTPException: status and detail joined where the installed
\* Starlette defines __str__, and empty where it does not (the exception is
\* built without args); the repository pins no version
str_of_exception(e) ==
    { "", IF e.status_code = 503 THEN "503: " \o e.detail ELSE e.detail }

\* whether the try of the handler has `except HTTPException: raise` before
\* `except Exception`
reraises_http_exception(handler) ==
    handler \in { "get_attendance_stats", "get_team_attendance_stats" }

\* the answers the except clauses of a handler leave for what its body did:
\* an HTTPException goes through where it is re-raised, and is otherwise
\* caught as an Exception and turned into a 500 of detail str(e)
except_clauses(handler, body) ==
    IF ~ body.raised \/ reraises_http_exception(handler)
    THEN { [status |-> body.status_code, detail |-> body.detail] }
    ELSE { [status |-> 500, detail |-> text] : text \in str_of_exception(body) }

\* AttendanceChatbot._get_personal_attendance, by what it returns
get_personal_attendance(us, user_email) ==
    IF \E u \in us : PyStr(u.email) = user_email THEN "personal_stats"
    ELSE "User not found"

\* AttendanceChatbot.process_question for the two questions of the pool, by
\* the type of the dict it returns; it catches what its queries raise
process_question(us, question, user_email) ==
    IF question = "my attendance" THEN get_personal_attendance(us, user_email)
    ELSE "help"

\* AttendanceChatbot.get_user_attendance_stats, by what it returns
get_user_attendance_stats(us, user_email) ==
    IF \E u \in us : u.email = user_email THEN "stats" ELSE "User not found"

\* POST /api/attendance/chat, the body of the try
attendance_chat_body(chatbot, us, question, user_email) ==
    IF chatbot = PyNone
    THEN HTTPException(503, "Attendance chatbot not available")
    ELSE BodyReturned(process_question(us, question, user_email))

\* GET /api/attendance/stats/{email}, the body of the try
get_attendance_stats_body(chatbot, us, email) ==
    IF chatbot = PyNone
    THEN HTTPException(503, "Attendance chatbot not available")
    ELSE IF get_user_attendance_stats(us, email) = "User not found"
    THEN HTTPException(404, "User not found")
    ELSE BodyReturned("stats")

\* GET /api/attendance/team-stats, the body of the try;
\* get_all_consultants_attendance returns a list of dicts, which never
\* holds the str "error"
get_team_attendance_stats_body(chatbot) ==
    IF chatbot = PyNone
    THEN HTTPException(503, "Attendance chatbot not available")
    ELSE BodyReturned("team_stats")

attendance_chat(chatbot, us, question, user_email) ==
    except_clauses("attendance_chat",
                   attendance_chat_body(chatbot, us, question, user_email))

get_attendance_stats(chatbot, us, email) ==
    except_clauses("get_attendance_stats", get_attendance_stats_body(chatbot, us, email))

get_team_attendance_stats(chatbot) ==
    except_clauses("get_team_attendance_stats", get_team_attendance_stats_body(chatbot))

\* the most requests of one run of the attendance routes
MaxAttendanceRequests == 2

AttendanceRequests(handler) ==
    IF handler = "attendance_chat"
    THEN { [NoArgs EXCEPT !.question = PyStr(q), !.email = e] :
           q \in { "my attendance", "hello" },
           e \in { "ann@example.com", "bob@example.com" } }
    ELSE IF handler = "get_attendance_stats"
    THEN { [NoArgs EXCEPT !.email = e] : e \in { "ann@example.com", "bob@example.com" } }
    ELSE { NoArgs }

\* a request arrives; as for the application routes, one at a time
ReceiveAttendance ==
    /\ requests = { }
    /\ Cardinality(responses) < MaxAttendanceRequests
    /\ \E handler \in { "attendance_chat", "get_attendance_stats",
                        "get_team_attendance_stats" } :
       \E args \in AttendanceRequests(handler) :
           requests' = { HttpRequest(Cardinality(responses) + 1, handler, args) }
    /\ UNCHANGED << running, responses, tables, attendance_chatbot,
                    train_vars, mcp_vars >>

AttendanceChat ==
    \E r \in requests :
        /\ can_step(r, "attendance_chat", "start")
        /\ \E a \in attendance_chat(attendance_chatbot, users, r.args.question.v,
                                    PyStr(r.args.email)) :
               Respond(r, a.status, a.detail, PyNone)
        /\ UNCHANGED << tables, attendance_chatbot, train_vars, mcp_vars >>

GetAttendanceStats ==
    \E r \in requests :
        /\ can_step(r, "get_attendance_stats", "start")
        /\ \E a \in get_attendance_stats(attendance_chatbot, users, r.args.email) :
               Respond(r, a.status, a.detail, PyNone)
        /\ UNCHANGED << tables, attendance_chatbot, train_vars, mcp_vars >>

GetTeamAttendanceStats ==
    \E r \in requests :
        /\ can_step(r, "get_team_attendance_stats", "start")
        /\ \E a \in get_team_attendance_stats(attendance_chatbot) :
               Respond(r, a.status, a.detail, PyNone)
        /\ UNCHANGED << tables, attendance_chatbot, train_vars, mcp_vars >>

\* the database of DbInit; the chatbot initialised, or None
AttendanceInit ==
    /\ users = { User(uuid4(1), "admin@example.com", "admin"),
                 User(uuid4(2), "ann@example.com", "consultant") }
    /\ profiles = { ConsultantProfile(1, uuid4(2), "available", "pending") }
    /\ consultant_skills_table = { }
    /\ resume_analyses = { }
    /\ opportunities = { [id |-> 1, status |-> "open"] }
    /\ applications = { }
    /\ next_profile_id = 2
    /\ next_uuid = 3
    /\ assignments = { }
    /\ next_assignment_id = 1
    /\ attendance_chatbot \in { AttendanceChatbot, PyNone }
    /\ requests = { }
    /\ running = 0
    /\ responses = { }
    /\ TrainIdle
    /\ McpIdle

AttendanceNext ==
    \/ ReceiveAttendance
    \/ AttendanceChat
    \/ GetAttendanceStats
    \/ GetTeamAttendanceStats

AttendanceSpec == AttendanceInit /\ [][AttendanceNext]_vars

\* the chatbot is not available
chatbot_unavailable == attendance_chatbot = PyNone

\* C21: when the attendance chatbot is not available, POST
\* /api/attendance/chat answers 503 'Attendance chatbot not available', as
\* the other attendance endpoints do.
C21_ChatAnswers503WhenUnavailable ==
    \A q \in responses :
        (chatbot_unavailable /\ q.handler = "attendance_chat")
        => /\ q.status = 503
           /\ q.detail = "Attendance chatbot not available"

====
